---- MODULE Spec2Model ----
(***************************************************************************)
(* Model of the adresu-plugin policy sidecar.                              *)
(*                                                                         *)
(*  Part I   - the pipeline dispatcher (internal/policy/pipeline.go), the  *)
(*             transport loop and the hot-reload control plane (main.go,   *)
(*             internal/config/watcher.go).        Specification: Spec     *)
(*  Part II  - the auto-ban rejection handler (policy/autoban_filter.go).  *)
(*                                                 Specification: SpecAB   *)
(*  Part III - the banned-author lookup with its cache and single-flight   *)
(*             group (BannedAuthorFilter.isBanned). Specification: SpecBA  *)
(***************************************************************************)
EXTENDS Integers, Sequences, FiniteSets, TLC

(***************************************************************************)
(* Bounds of the model.                                                    *)
(***************************************************************************)
\* number of input lines the transport loop reads before end of input
MaxLines == 2
\* number of debounced reload callbacks that run
MaxReloads == 2

(***************************************************************************)
(* Part I - state                                                          *)
(***************************************************************************)
VARIABLES
    dryRun,           \* the --dry-run flag handed to processEvents
    pipelines,        \* every Pipeline object built so far, by identity
    currentPipeline,  \* the shared reference (identity of a pipeline)
    debounceTimer,    \* TRUE while the watcher's debounce timer is armed
    reloads,          \* the reload callbacks started so far
    loop,             \* position of processEvents' select loop
    call,             \* the ProcessEvent call of the line being handled
    output            \* the response records written so far (id and action)

pipeVars == <<dryRun, pipelines, currentPipeline, debounceTimer,
              reloads, loop, call, output>>

(***************************************************************************)
(* Part II - state                                                         *)
(***************************************************************************)
VARIABLES
    now,              \* the clock, in ticks
    abEnabled,        \* AutoBanFilterConfig.Enabled
    strikes,          \* AutoBanFilter.strikes: pubkey -> entry of the expirable LRU
    banningCooldown,  \* AutoBanFilter.banningCooldown: pubkey -> entry
    mu,               \* AutoBanFilter.mu: the goroutine holding it, 0 when free
    hr,               \* the HandleRejection calls, by goroutine
    banTasks,         \* banUser goroutines spawned and not yet run, per pubkey
    banCalls,         \* store.BanAuthor calls made, per pubkey
    abHist,           \* history: the times at which a ban was decided, per pubkey
    firstStrike       \* RejectionStats.FirstStrikeTime of the stored record, per pubkey

abVars == <<now, abEnabled, strikes, banningCooldown, mu, hr, banTasks,
            banCalls, abHist, firstStrike>>

(***************************************************************************)
(* Part III - state                                                        *)
(***************************************************************************)
VARIABLES
    banStore,         \* the persistent ban store: set of banned lowercase keys
    cache,            \* BannedAuthorFilter.cache: key -> "none" | "banned" | "clean"
    sf,               \* singleflight.Group: key -> the flight in progress
    lk,               \* the isBanned calls, by goroutine
    baHist            \* history per key: the store calls made, whether one
                      \* failed, and whether the first wave of lookups is
                      \* still on (no lookup returned, no cache entry lost)

baVars == <<banStore, cache, sf, lk, baHist>>

(***************************************************************************)
(* Part IV - state                                                         *)
(***************************************************************************)
VARIABLES
    moderatorPubKey,  \* ModerationFilter.moderatorPubKey, empty when not set
    banDuration,      \* ModerationFilter.banDuration
    banTTL,           \* the TTL the ban record of a key was last written with
    delTasks,         \* delete-by-author goroutines started and not yet run, per key
    delCalls,         \* DeleteEventsByAuthor calls made, per key
    modLast           \* history: the last Match call (number, event, store outcome, result)

modVars == <<moderatorPubKey, banDuration, banTTL, delTasks, delCalls, modLast>>

(***************************************************************************)
(* Part V - state                                                          *)
(***************************************************************************)
VARIABLES
    rlCfg,            \* RateLimiterFilter.cfg: Enabled and By
    limiters,         \* RateLimiterFilter.limiters: cache key -> token bucket
    rlLog             \* history: the Match calls made (event, rule used, result)

rlVars == <<rlCfg, limiters, rlLog>>

(***************************************************************************)
(* Part VI - state                                                         *)
(***************************************************************************)
VARIABLES
    emCfg,            \* EmergencyFilterConfig: Enabled, PerIP.Enabled, PerIP.IPv4Prefix
    newKeyLimiter,    \* EmergencyFilter.newKeyLimiter: tokens of the global bucket
    recentSeen,       \* EmergencyFilter.recentSeen: the pubkeys with a live entry
    perIPLimiters,    \* EmergencyFilter.perIPLimiters: address key -> token bucket
    emLast            \* history: the last Match call (number, event, result)

emVars == <<emCfg, newKeyLimiter, recentSeen, perIPLimiters, emLast>>

(***************************************************************************)
(* Part VII - state                                                        *)
(***************************************************************************)
VARIABLES
    raCfg,            \* RepostAbuseFilter.cfg
    stats,            \* RepostAbuseFilter.stats: pubkey -> UserActivityStats
    ra,               \* the goroutines calling RepostAbuseFilter.Match
    raNow,            \* the clock
    raLast            \* history: the last Match call that returned

raVars == <<raCfg, stats, ra, raNow, raLast>>

(***************************************************************************)
(* Part VIII - state                                                       *)
(***************************************************************************)
VARIABLES
    kindCfg,          \* KindFilterConfig: AllowedKinds and DeniedKinds
    tagsCfg,          \* TagsFilterConfig: Rules
    prLast            \* history: the last Match call of a predicate stage

prVars == <<kindCfg, tagsCfg, prLast>>

(***************************************************************************)
(* Part IX - state                                                         *)
(***************************************************************************)
VARIABLES
    limiterCache,     \* f.limiters / f.perIPLimiters: bucket key -> limiter object, 0 when absent
    limiterObjs,      \* the rate.Limiter objects created, in order: the tokens left in each
    gl,               \* the Match calls that go through getLimiter, by goroutine
    glAdmitted        \* history: the events admitted, per bucket key

glVars == <<limiterCache, limiterObjs, gl, glAdmitted>>

(***************************************************************************)
(* Part X - state                                                          *)
(***************************************************************************)
VARIABLES
    chatCfg,          \* EphemeralChatFilterConfig: Enabled, MinDelay, RequiredPoWOnLimit
    lastSeen,         \* EphemeralChatFilter.lastSeen: pubkey -> time of the entry, NoTime when absent
    chatLimiters,     \* EphemeralChatFilter.limiters: pubkey -> token bucket
    chatNow,          \* the clock of the chat stage, in ticks
    chatLast          \* history: the last Match call of the chat stage

chatVars == <<chatCfg, lastSeen, chatLimiters, chatNow, chatLast>>

(***************************************************************************)
(* Part XI - state                                                         *)
(***************************************************************************)
VARIABLES
    langCfg,          \* LanguageFilterConfig: Enabled, MinLengthForCheck, and whether the cache is built
    approvedCache,    \* LanguageFilter.approvedCache: the pubkeys that have an entry
    langLast          \* history: the last Match call of the language stage

langVars == <<langCfg, approvedCache, langLast>>

\* the variables of the last parts
tailVars == <<chatVars, langVars>>

\* the variables of the parts after Part III
laterVars == <<modVars, rlVars, emVars, raVars, prVars, glVars, tailVars>>

vars == <<pipeVars, abVars, baVars, laterVars>>

(***************************************************************************)
(* Part I - configuration and pipeline construction                        *)
(***************************************************************************)
\* The configurations that can be on disk.  "bad-load" is a file that
\* config.Load rejects (unreadable or invalid); "bad-build" loads but makes
\* one of the stage constructors of buildPipeline return an error.
Configs == {"A", "bad-load", "bad-build"}

\* config.Load(path, false): err == nil
LoadOk(c) == c # "bad-load"

\* buildPipeline: every constructor returned a nil error
BuildOk(c) == c # "bad-build"

\* buildPipeline's kitFactories table, in order
kitFactories ==
    << "EmergencyFilter", "KindFilter", "RateLimiterFilter", "FreshnessFilter",
       "SizeFilter", "TagsFilter", "KeywordFilter", "RepostAbuseFilter",
       "EphemeralChatFilter", "LanguageFilter" >>

\* stage and handler objects that are built once and used by every pipeline
SharedInstance(pid, n) == [owner |-> 1, name |-> n]

\* A stage or handler object: a fresh instance per pipeline, so its identity
\* is the pipeline it was constructed for plus its name.
Instance(pid, n) == [owner |-> pid, name |-> n]

\* buildPipeline(cfg, db) followed by NewPipeline: the pipeline object with
\* identity pid.  wg is the WaitGroup counter, closing the progress of the
\* Close() goroutine started for this pipeline ("none" until it is started).
buildPipeline(cfg, pid) ==
    LET names == kitFactories \o << "BannedAuthorFilter", "ModerationFilter" >>
    IN  [ cfg               |-> cfg,
          stages            |-> [i \in 1..Len(names) |-> Instance(pid, names[i])],
          rejectionHandlers |-> << Instance(pid, "AutoBanFilter") >>,
          wg                |-> 0,
          closing           |-> "none" ]

(***************************************************************************)
(* Part I - what a stage's Match can return                                *)
(***************************************************************************)
\* Stages that return a non-nil error with Allowed = false
\* (BannedAuthorFilter: internal_author_check_failed; SizeFilter:
\* internal_marshal_failed).
FailClosedStages == {"BannedAuthorFilter", "SizeFilter"}

\* FilterResult plus the error of one Match call.  Reason codes are specific
\* to the stage, hence the pair; panic = TRUE stands for a Match call that
\* panics instead of returning.
Result(n, allowed, reason, err, panic) ==
    [ Filter |-> n, Allowed |-> allowed, Reason |-> <<n, reason>>,
      err |-> err, panic |-> panic ]

(***************************************************************************)
(* ModerationFilter.Match, as a function of the event and of the outcome   *)
(* of the store call it makes                                              *)
(***************************************************************************)
\* nostr.KindReaction
KindReaction == 7
\* nostr.KindTextNote
KindTextNote == 1

\* the configured moderator key, and the keys a p tag can name: two valid
\* keys, the moderator's own key, and a string that is not a public key
ModeratorKey == <<"c", "d">>
ModTargets == { <<"a", "b">>, <<"e", "f">>, ModeratorKey, <<"x", "y">> }

HexDigits == {"0", "1", "2", "3", "4", "5", "6", "7", "8", "9",
              "a", "b", "c", "d", "e", "f"}

\* a validity test that lets every target pass
IsValidPublicKeyAny(pk) == TRUE

\* nostr.IsValidPublicKey, on the keys of the model (lowercase hex)
IsValidPublicKey(pk) == Len(pk) = 2 /\ \A i \in 1..Len(pk) : pk[i] \in HexDigits

\* the configured emojis, and a content that is neither
BanEmoji == "ban-emoji"
UnbanEmoji == "unban-emoji"
ModContents == {BanEmoji, UnbanEmoji, "other"}

\* The events the moderator stage tells apart: kind, author, the tag that
\* event.Tags.FindLast("p") returns (empty when there is none), content.
ModEvents ==
    [ kind    : {KindReaction, KindTextNote},
      pubkey  : {ModeratorKey, <<"a", "b">>},
      ptag    : {<<>>} \cup {<<"p", t>> : t \in ModTargets},
      content : ModContents ]

\* lines 62 and 74: newResult(true, "moderator_..._failed", err)
ModSideEffectFailed(reason) ==
    Result("ModerationFilter", TRUE, reason, TRUE, FALSE)

ModAccept(reason) == Result("ModerationFilter", TRUE, reason, FALSE, FALSE)

\* ModerationFilter.Match lines 43-79, with moderatorPubKey = mk, on event ev,
\* when the store call it makes succeeds (ok) or fails: the result returned,
\* and the side effect done ("ban", "unban" or "none") with its target.
ModerationOutcome(mk, ev, ok) ==
    LET NoEffect(reason) == [res |-> ModAccept(reason), effect |-> "none", target |-> <<>>]
    IN  IF mk = <<>> \/ ev.kind # KindReaction \/ ev.pubkey # mk
          THEN NoEffect("not_a_moderation_event")
        ELSE IF Len(ev.ptag) < 2
          THEN NoEffect("no_pubkey_tag_in_reaction")
        ELSE IF ~IsValidPublicKey(ev.ptag[2]) \/ ev.ptag[2] = mk
          THEN NoEffect("invalid_target_pubkey")
        ELSE IF ev.content = BanEmoji
          THEN IF ok
                 THEN [res |-> ModAccept("moderator_ban_executed"),
                       effect |-> "ban", target |-> ev.ptag[2]]
                 ELSE [res |-> ModSideEffectFailed("moderator_ban_failed"),
                       effect |-> "none", target |-> ev.ptag[2]]
        ELSE IF ev.content = UnbanEmoji
          THEN IF ok
                 THEN [res |-> ModAccept("moderator_unban_executed"),
                       effect |-> "unban", target |-> ev.ptag[2]]
                 ELSE [res |-> ModSideEffectFailed("moderator_unban_failed"),
                       effect |-> "none", target |-> ev.ptag[2]]
        ELSE NoEffect("emoji_not_matched")

\* What the Match of the stage named n can produce for some event.
MatchResults(n) ==
    {Result(n, FALSE, "", FALSE, TRUE)}
    \cup (IF n # "ModerationFilter"
            THEN {Result(n, TRUE, "accepted", FALSE, FALSE),
                  Result(n, FALSE, "denied", FALSE, FALSE)}
            ELSE {ModerationOutcome(ModeratorKey, ev, ok).res :
                      ev \in ModEvents, ok \in BOOLEAN})
    \cup (IF n \in FailClosedStages
            THEN {Result(n, FALSE, "internal_check_failed", TRUE, FALSE)} ELSE {})

\* PolicyResponse{ID, Action, Msg}; every Msg is a tuple of strings.
Response(id, action, msg) == [ID |-> id, Action |-> action, Msg |-> msg]

NoResponse == Response(0, "none", <<>>)

PanicMsg == <<"internal: an unexpected error occurred">>

ErrorMsg(filter) == <<"internal: error in filter ", filter>>

\* The state of a ProcessEvent call that has not started.
NoCall ==
    [ id |-> 0, p |-> 0, i |-> 0, matched |-> <<>>, results |-> <<>>,
      handled |-> <<>>, response |-> NoResponse, err |-> FALSE ]

(***************************************************************************)
(* Part I - initial state: runApp up to the call of processEvents          *)
(***************************************************************************)
\* the two processEvents of the sources: the one whose scanner goroutine
\* closes errChan when it returns (watcher.go:304) and the one whose
\* goroutine does not (main.go:470-481)
ClosingBuild == "watcher.go:298"
NonClosingBuild == "main.go:466"

\* D: the values of --dry-run; C: the configurations the process starts
\* with; B: the processEvents that are built
InitPipe(D, C, B) ==
    /\ dryRun \in D
    /\ \E c \in {x \in C : LoadOk(x) /\ BuildOk(x)} :
          pipelines = << buildPipeline(c, 1) >>
    /\ currentPipeline = 1
    /\ debounceTimer = FALSE
    /\ reloads = <<>>
    /\ \E b \in B :
          loop = [pc |-> "select", nread |-> 0, events |-> <<>>, ret |-> "none",
                  build |-> b, errChan |-> "empty"]
    /\ call = NoCall
    /\ output = <<>>

(***************************************************************************)
(* Part I - the watcher and the reload callback                            *)
(***************************************************************************)
\* StartWatcher, case event := <-watcher.Events with a relevant event: the
\* file was rewritten; the pending timer is stopped and a new one armed.
ConfigChange ==
    /\ Len(reloads) < MaxReloads
    /\ ~debounceTimer
    /\ debounceTimer' = TRUE
    /\ UNCHANGED <<dryRun, pipelines, currentPipeline, reloads, loop, call, output>>

\* The time.AfterFunc callback starts in its own goroutine and loads the
\* file, whose contents at that moment are c.
ReloadLoad(c) ==
    /\ debounceTimer
    /\ debounceTimer' = FALSE
    /\ reloads' = Append(reloads,
                    IF LoadOk(c)
                      THEN [pc |-> "loaded", cfg |-> c, pid |-> 0]
                      ELSE [pc |-> "exited", cfg |-> "", pid |-> 0])
    /\ UNCHANGED <<dryRun, pipelines, currentPipeline, loop, call, output>>

\* an onReload that goes on after buildPipeline returned an error
ReloadBuildIgnoringError(r) ==
    /\ reloads[r].pc = "loaded"
    /\ pipelines' = Append(pipelines,
                      buildPipeline(reloads[r].cfg, Len(pipelines) + 1))
    /\ reloads' = [reloads EXCEPT ![r].pc = "built", ![r].cfg = "",
                                  ![r].pid = Len(pipelines) + 1]
    /\ UNCHANGED <<dryRun, currentPipeline, debounceTimer, loop, call, output>>

\* onReload: newPipeline, err := buildPipeline(newCfg, db)
ReloadBuild(r) ==
    /\ reloads[r].pc = "loaded"
    /\ IF BuildOk(reloads[r].cfg)
         THEN /\ pipelines' = Append(pipelines,
                                buildPipeline(reloads[r].cfg, Len(pipelines) + 1))
              /\ reloads' = [reloads EXCEPT ![r].pc = "built", ![r].cfg = "",
                                            ![r].pid = Len(pipelines) + 1]
         ELSE /\ reloads' = [reloads EXCEPT ![r].pc = "exited", ![r].cfg = ""]
              /\ UNCHANGED pipelines
    /\ UNCHANGED <<dryRun, currentPipeline, debounceTimer, loop, call, output>>

\* onReload: the swap under pipelineMutex, then go oldPipeline.Close(); the
\* record of the callback keeps the pipeline it installed
ReloadSwap(r) ==
    /\ reloads[r].pc = "built"
    /\ currentPipeline' = reloads[r].pid
    /\ pipelines' = [pipelines EXCEPT ![currentPipeline].closing = "waiting"]
    /\ reloads' = [reloads EXCEPT ![r].pc = "exited"]
    /\ UNCHANGED <<dryRun, debounceTimer, loop, call, output>>

\* Pipeline.Close, run in the goroutine started by onReload: once p.wg.Wait()
\* returns, the loop closes every stage that has a Close method.
Close(pid) ==
    /\ pipelines[pid].closing = "waiting"
    /\ pipelines[pid].wg = 0
    /\ pipelines' = [pipelines EXCEPT ![pid].closing = "closed"]
    /\ UNCHANGED <<dryRun, currentPipeline, debounceTimer, reloads,
                   loop, call, output>>

(***************************************************************************)
(* Part I - Pipeline.ProcessEvent                                          *)
(***************************************************************************)
\* a loop that reads the shared reference again at each stage
StageOfCurrent(c) == pipelines[currentPipeline].stages[c.i]

\* The stage the loop of ProcessEvent is at: p.stages[i] of the receiver p
StageOf(c) == pipelines[c.p].stages[c.i]

\* line 70: filterErr != nil
Failed(res) == res.err

\* a dispatcher that does not look at the verdict
RejectedIgnored(res) == FALSE

\* line 79: !res.Allowed
Rejected(res) == ~res.Allowed

\* a recover that leaves the named result at its zero value
PanicResponseZero(id) == NoResponse

\* line 59, the deferred recover
PanicResponse(id) == Response(id, "reject", PanicMsg)

\* line 72
ErrorResponse(id, res) == Response(id, "reject", ErrorMsg(res.Filter))

\* line 96, the dry-run return of a rejected event
DryRunResponse(id) == Response(id, "accept", <<>>)

\* line 103
RejectResponse(id, res) == Response(id, "reject", res.Reason)

\* line 108
AcceptResponse(id) == Response(id, "accept", <<>>)

\* a dispatcher that returns the reject without calling the handlers
HandlerCallsNone(handlers, filter) == <<>>

\* lines 99-101: the calls handler.HandleRejection(ctx, event, res.Filter)
\* made by the loop over p.rejectionHandlers, in the order they are made
HandlerCalls(handlers, filter) ==
    [k \in 1..Len(handlers) |-> [handler |-> handlers[k], filter |-> filter]]

\* What every stage would answer for one event: the stage at position n
\* answers res, the others accept.
Outcomes(names, n, res) ==
    [k \in 1..Len(names) |->
        IF k = n THEN res ELSE Result(names[k], TRUE, "accepted", FALSE, FALSE)]

\* the call as it is when ProcessEvent returns (resp, err)
Returned(c, resp, err) == [c EXCEPT !.response = resp, !.err = err]

\* The body of ProcessEvent, lines 54-108, from iteration c.i of the loop
\* over the stages: outs[k] is what the Match of stage k produces, dry is
\* the dryRun argument.  The value is the call when ProcessEvent returns,
\* with the Match calls and HandleRejection calls it made.
RECURSIVE StageLoop(_, _, _)
StageLoop(c, outs, dry) ==
    IF c.i > Len(pipelines[c.p].stages)
      THEN Returned(c, AcceptResponse(c.id), FALSE)
      ELSE LET res == outs[c.i]
               c1  == [c EXCEPT !.matched = Append(@, StageOf(c)),
                                !.results = Append(@, res)]
           IN  IF res.panic
                 THEN Returned(c1, PanicResponse(c.id), FALSE)
               ELSE IF Failed(res)
                 THEN Returned(c1, ErrorResponse(c.id, res), TRUE)
               ELSE IF Rejected(res)
                 THEN IF dry
                        THEN Returned(c1, DryRunResponse(c.id), FALSE)
                        ELSE Returned(
                               [c1 EXCEPT !.handled = HandlerCalls(
                                    pipelines[c.p].rejectionHandlers, res.Filter)],
                               RejectResponse(c.id, res), FALSE)
               ELSE StageLoop([c1 EXCEPT !.i = @ + 1], outs, dry)

\* processEvents lines 348-350 have run; ProcessEvent line 51: p.wg.Add(1)
Enter ==
    /\ loop.pc = "picked"
    /\ pipelines' = [pipelines EXCEPT ![call.p].wg = @ + 1]
    /\ call' = [call EXCEPT !.i = 1]
    /\ loop' = [loop EXCEPT !.pc = "stages"]
    /\ UNCHANGED <<dryRun, currentPipeline, debounceTimer, reloads, output>>

\* ProcessEvent lines 54-108 and the deferred p.wg.Done(): the stages run on
\* some event, whose effect on the stages is that stage n answers res.
RunStages ==
    /\ loop.pc = "stages"
    /\ LET names == [k \in 1..Len(pipelines[call.p].stages) |->
                        pipelines[call.p].stages[k].name]
       IN  \E n \in 1..Len(names) : \E res \in MatchResults(names[n]) :
              call' = StageLoop(call, Outcomes(names, n, res), dryRun)
    /\ pipelines' = [pipelines EXCEPT ![call.p].wg = @ - 1]
    /\ loop' = [loop EXCEPT !.pc = "returned"]
    /\ UNCHANGED <<dryRun, currentPipeline, debounceTimer, reloads, output>>

(***************************************************************************)
(* Part I - processEvents                                                  *)
(***************************************************************************)
LineKinds == {"empty", "malformed", "event"}

\* case line := <-linesChan, up to the call of ProcessEvent: an empty or
\* undecodable line is skipped, otherwise the current pipeline is picked
\* under the read lock.
ReadLine(kind) ==
    /\ loop.pc = "select"
    /\ loop.nread < MaxLines
    /\ IF kind = "event"
         THEN /\ call' = [NoCall EXCEPT !.id = loop.nread + 1, !.p = currentPipeline]
              /\ loop' = [loop EXCEPT !.pc = "picked", !.nread = @ + 1,
                                      !.events = Append(@, loop.nread + 1)]
         ELSE /\ loop' = [loop EXCEPT !.nread = @ + 1]
              /\ UNCHANGED call
    /\ UNCHANGED <<dryRun, pipelines, currentPipeline, debounceTimer,
                   reloads, output>>

\* the scanner goroutine after its loop: scanner.Err() is sent on errChan
\* when it is not nil, and errChan is closed by the deferred call where
\* there is one; what a receive on errChan then finds
ScannerExit(build, err) ==
    IF err THEN "error"
    ELSE IF build = ClosingBuild THEN "closed"
    ELSE "empty"

\* the scanner goroutine ends (with a read error or at end of input) and
\* closes linesChan; the select loop receives !ok and goes on to <-errChan
ReadEOF(err) ==
    /\ loop.pc = "select"
    /\ loop' = [loop EXCEPT !.pc = "eof", !.errChan = ScannerExit(loop.build, err)]
    /\ UNCHANGED <<dryRun, pipelines, currentPipeline, debounceTimer,
                   reloads, call, output>>

\* err := <-errChan received a value or found the channel closed: return the
\* scanner's error, or nil.  While errChan is empty and open the receive
\* blocks.
EOFReturn ==
    /\ loop.pc = "eof"
    /\ loop.errChan # "empty"
    /\ loop' = [loop EXCEPT !.pc = "done",
                            !.ret = IF loop.errChan = "error" THEN "error" ELSE "nil"]
    /\ UNCHANGED <<dryRun, pipelines, currentPipeline, debounceTimer,
                   reloads, call, output>>

\* What the model keeps of a response record written by encoder.Encode
Written(resp) == [ID |-> resp.ID, Action |-> resp.Action]

\* lines 353-363: a call that returned an error is logged and skipped;
\* otherwise the response is encoded to the output.  The locals of the
\* iteration go out of scope.
Emit ==
    /\ loop.pc = "returned"
    /\ output' = IF call.err THEN output ELSE Append(output, Written(call.response))
    /\ loop' = [loop EXCEPT !.pc = "select"]
    /\ call' = NoCall
    /\ UNCHANGED <<dryRun, pipelines, currentPipeline, debounceTimer,
                   reloads>>

(***************************************************************************)
(* Part I - properties of the dispatcher and the control plane             *)
(***************************************************************************)
\* the stages of the pipeline a call runs on, and their number
StagesOfCall == pipelines[call.p].stages

\* the result of the last Match call of the current ProcessEvent call
LastResult == call.results[Len(call.results)]

\* a Match call returned an accept verdict and a nil error
Accepted(res) == res.Allowed /\ ~res.err /\ ~res.panic

\* a Match call returned a reject verdict and a nil error
Denied(res) == ~res.Allowed /\ ~res.err /\ ~res.panic

\* ProcessEvent has returned and processEvents has not yet looked at the result
CallReturned == loop.pc = "returned"

\* The Match calls made are those of the first stages of the pipeline, in the
\* configured order, and every stage but the last one called accepted.
RanInOrderUntilStop ==
    /\ Len(call.results) \in 1..Len(StagesOfCall)
    /\ Len(call.matched) = Len(call.results)
    /\ \A k \in 1..Len(call.matched) : call.matched[k].name = StagesOfCall[k].name
    /\ \A k \in 1..(Len(call.results) - 1) : Accepted(call.results[k])

\* the response is accept only if every stage accepted
AcceptOnlyIfAllAccepted ==
    call.response.Action = "accept" =>
        /\ Len(call.results) = Len(StagesOfCall)
        /\ \A k \in 1..Len(call.results) : Accepted(call.results[k])

C2_PanicIsRecovered ==
    (CallReturned /\ LastResult.panic) =>
        /\ call.response = Response(call.id, "reject", PanicMsg)
        /\ call.response.ID = call.id /\ call.id > 0
        /\ ~call.err
        /\ call.handled = <<>>

\* a call in which a stage after the first one panicked
C2_Witness ==
    /\ CallReturned
    /\ Len(call.results) > 1
    /\ LastResult.panic

\* C3 as stated: an event on which a stage returned an error is answered with
\* reject - a reject record with its id is written - never with accept, and
\* the stages after the failing one are not run.
C3_AsStated ==
    [][ (CallReturned /\ loop'.pc = "select" /\ LastResult.err /\ ~LastResult.panic) =>
            /\ Len(call.matched) = Len(call.results)
            /\ call.response.Action = "reject"
            /\ output' = Append(output, [ID |-> call.id, Action |-> "reject"]) ]_vars

\* C13 as stated: an event on which the moderator stage was the last stage to
\* run, and did not panic, is not answered with reject, whatever the outcome
\* of the stage's store call.
C13_AsStated ==
    (CallReturned /\ LastResult.Filter = "ModerationFilter" /\ ~LastResult.panic) =>
        call.response.Action # "reject"

\* C20 as stated: whenever processEvents is between two lines, it has written
\* exactly one record for every well-formed line read so far, in input order,
\* with the line's event id and action accept or reject (and none for a
\* malformed line).
C20_AsStated ==
    loop.pc = "select" =>
        /\ Len(output) = Len(loop.events)
        /\ \A i \in 1..Len(output) :
              /\ i <= Len(loop.events) => output[i].ID = loop.events[i]
              /\ output[i].Action \in {"accept", "reject"}

\* C21 as stated: once the input has ended without a read error,
\* processEvents returns nil - it does not wait forever - and no line is
\* left unhandled.
C21_AsStated ==
    (loop.pc = "eof" /\ loop.errChan # "error") ~>
        (loop.pc = "done" /\ loop.ret = "nil" /\ call = NoCall)

\* C35 as stated: the moderator stage sees every event, hence every
\* moderator reaction, whatever the verdicts of the other stages: a
\* ProcessEvent call in which no stage failed or panicked has called the
\* Match of the ModerationFilter stage by the time it returns.
C35_AsStated ==
    (/\ CallReturned /\ ~dryRun
     /\ \A k \in 1..Len(call.results) : ~call.results[k].err /\ ~call.results[k].panic) =>
        \E k \in 1..Len(call.matched) : call.matched[k].name = "ModerationFilter"

\* C37 as stated: the callbacks are numbered in the order in which they
\* loaded the file.  No callback replaces the pipeline installed by a
\* callback that loaded the file after it, and once no timer is pending and
\* every callback has finished, the current pipeline is the one built by the
\* last callback that loaded and built a valid configuration.
C37_AsStated ==
    /\ [][ \A r \in 1..Len(reloads) :
              (reloads[r].pc = "built" /\ reloads'[r].pc = "exited") =>
                  \A q \in (r + 1)..Len(reloads) :
                      ~(reloads[q].pc = "exited" /\ reloads[q].pid = currentPipeline) ]_vars
    /\ []((~debounceTimer /\ \A r \in 1..Len(reloads) : reloads[r].pc = "exited") =>
            \A r \in 1..Len(reloads) :
                (/\ reloads[r].pid # 0
                 /\ \A q \in (r + 1)..Len(reloads) : reloads[q].pid = 0) =>
                    currentPipeline = reloads[r].pid)

\* the names of the stages of a pipeline, in order, and its stage and handler
\* objects
StageNames(pl) == [k \in DOMAIN pl.stages |-> pl.stages[k].name]
Objects(pl) ==
    {pl.stages[k] : k \in DOMAIN pl.stages}
        \cup {pl.rejectionHandlers[k] : k \in DOMAIN pl.rejectionHandlers}

C4_AsStated ==
    (CallReturned /\ dryRun) =>
        /\ call.response.Action = "accept"
        /\ call.handled = <<>>

C6_ReloadsNeverPartiallyApply ==
    /\ [](/\ \A k \in 1..Len(call.matched) :
                call.matched[k] = pipelines[call.p].stages[k]
          /\ \A k \in 1..Len(call.handled) :
                call.handled[k].handler.owner = call.p)
    /\ [][ /\ loop.pc \in {"picked", "stages"} => call'.p = call.p
           /\ (loop.pc = "select" /\ loop'.pc = "picked") => call'.p = currentPipeline
           /\ \A pid \in DOMAIN pipelines :
                 /\ pipelines'[pid].stages = pipelines[pid].stages
                 /\ pipelines'[pid].rejectionHandlers = pipelines[pid].rejectionHandlers
         ]_vars

\* a call that ran its stages and handlers after a reload had replaced the
\* pipeline it had picked
C6_Witness ==
    /\ CallReturned
    /\ call.p # currentPipeline
    /\ call.matched # <<>>
    /\ call.handled # <<>>

\* a reload callback ends without having built a pipeline: Load failed (the
\* callback record is created as exited) or buildPipeline failed
ReloadFails ==
    \/ /\ Len(reloads') = Len(reloads) + 1
       /\ reloads'[Len(reloads')].pc = "exited"
    \/ \E r \in DOMAIN reloads :
          reloads[r].pc = "loaded" /\ reloads'[r].pc = "exited"

\* C7: a reload that fails to load the file or to build the pipeline leaves
\* the current pipeline reference, and the pipelines, as they were; the
\* current pipeline is always one built from a configuration that loaded and
\* built, and it is the one the next event is processed by.
C7_FailedReloadKeepsPipeline ==
    /\ [](/\ currentPipeline \in DOMAIN pipelines
          /\ LoadOk(pipelines[currentPipeline].cfg)
          /\ BuildOk(pipelines[currentPipeline].cfg))
    /\ [][ ReloadFails => /\ currentPipeline' = currentPipeline
                          /\ pipelines' = pipelines ]_vars

\* an event processed by the initial pipeline after a reload has failed
C7_Witness ==
    /\ \E r \in DOMAIN reloads : reloads[r].pc = "exited"
    /\ Len(pipelines) = 1
    /\ CallReturned
    /\ call.p = currentPipeline

ToLowerChar(ch) ==
    CASE ch = "A" -> "a"
      [] ch = "B" -> "b"
      [] OTHER    -> ch

\* strings.ToLower
ToLower(str) == [k \in 1..Len(str) |-> ToLowerChar(str[k])]

PubKeys == { <<"a", "b">>, <<"A", "B">> }

(***************************************************************************)
(* Part II - AutoBanFilter                                                 *)
(***************************************************************************)
\* cfg.MaxStrikes
MaxStrikes == 3
\* cfg.StrikeWindow, the TTL of the strikes cache, in ticks
StrikeWindow == 2
\* the TTL of the cooldown cache (time.Minute), in ticks
CooldownTTL == 2
\* the clock stops here
MaxTime == 3
\* goroutines calling HandleRejection
NumHR == 2

HRProcs == 1..NumHR

\* cfg.ExcludeFilters
ExcludeFilters == {"RateLimiterFilter"}

\* the filter names HandleRejection is called with
RejectingFilters == {"KindFilter", "RateLimiterFilter"}

\* An entry of an expirable LRU (hashicorp/golang-lru/v2/expirable).
NoEntry == [present |-> FALSE, value |-> 0, expiresAt |-> 0]

\* LRU.Add: the value is stored and the expiry is (re)set to now + ttl
LruAdd(v, ttl) == [present |-> TRUE, value |-> v, expiresAt |-> now + ttl]

\* LRU.Get finds the entry: it is there and time.Now() is not after ExpiresAt
LruLive(e) == e.present /\ ~(now > e.expiresAt)

\* a threshold that is off by one
ReachedMaxStrikesLate(count) == count > MaxStrikes

\* line 92: stats.StrikeCount >= f.cfg.MaxStrikes
ReachedMaxStrikes(count) == count >= MaxStrikes

IdleHR == [pc |-> "idle", pubkey |-> <<>>, count |-> 0, last |-> "none"]

\* E: the values of cfg.Enabled
InitAB(E) ==
    /\ now = 0
    /\ abEnabled \in E
    /\ strikes = [pk \in PubKeys |-> NoEntry]
    /\ banningCooldown = [pk \in PubKeys |-> NoEntry]
    /\ mu = 0
    /\ hr = [g \in HRProcs |-> IdleHR]
    /\ banTasks = [pk \in PubKeys |-> 0]
    /\ banCalls = [pk \in PubKeys |-> 0]
    /\ abHist = [pk \in PubKeys |-> <<>>]
    /\ firstStrike = [pk \in PubKeys |-> 0]

\* HandleRejection lines 57-73: the checks made before taking the mutex
HRStart(g, pk, filterName) ==
    /\ hr[g].pc = "idle"
    /\ hr' = [hr EXCEPT ![g] =
                IF ~abEnabled
                  THEN [IdleHR EXCEPT !.last = "disabled"]
                ELSE IF filterName \in ExcludeFilters
                  THEN [IdleHR EXCEPT !.last = "excluded"]
                ELSE IF LruLive(banningCooldown[pk])
                  THEN [IdleHR EXCEPT !.last = "cooldown"]
                ELSE [pc |-> "lock", pubkey |-> pk, count |-> 0, last |-> "none"]]
    /\ UNCHANGED <<now, abEnabled, strikes, banningCooldown, mu, banTasks, banCalls,
                   abHist, firstStrike>>

\* the strike count without the second cooldown check
HRLockNoRecheck(g) ==
    /\ hr[g].pc = "lock"
    /\ mu = 0
    /\ LET pk == hr[g].pubkey
           count == IF LruLive(strikes[pk]) THEN strikes[pk].value + 1 ELSE 1
       IN  /\ strikes' = [strikes EXCEPT ![pk] = LruAdd(count, StrikeWindow)]
           /\ firstStrike' = IF LruLive(strikes[pk]) THEN firstStrike
                             ELSE [firstStrike EXCEPT ![pk] = now]
           /\ hr' = [hr EXCEPT ![g].pc = "counted", ![g].count = count]
           /\ mu' = g
    /\ UNCHANGED <<now, abEnabled, banningCooldown, banTasks, banCalls, abHist>>

\* lines 75-89: f.mu.Lock(), the second cooldown check, and the strike count
HRLock(g) ==
    /\ hr[g].pc = "lock"
    /\ mu = 0
    /\ LET pk == hr[g].pubkey IN
       IF LruLive(banningCooldown[pk])
         THEN /\ hr' = [hr EXCEPT ![g] = [IdleHR EXCEPT !.last = "cooldown"]]
              /\ UNCHANGED <<mu, strikes, firstStrike>>
         ELSE LET count == IF LruLive(strikes[pk]) THEN strikes[pk].value + 1 ELSE 1
              IN  /\ strikes' = [strikes EXCEPT ![pk] = LruAdd(count, StrikeWindow)]
                  /\ firstStrike' = IF LruLive(strikes[pk]) THEN firstStrike
                                    ELSE [firstStrike EXCEPT ![pk] = now]
                  /\ hr' = [hr EXCEPT ![g].pc = "counted", ![g].count = count]
                  /\ mu' = g
    /\ UNCHANGED <<now, abEnabled, banningCooldown, banTasks, banCalls, abHist>>

\* lines 92-103: the threshold check, go f.banUser, the removal of the strike
\* record, the cooldown entry, and the deferred f.mu.Unlock()
HRFinish(g) ==
    /\ hr[g].pc = "counted"
    /\ mu = g
    /\ mu' = 0
    /\ LET pk == hr[g].pubkey IN
       IF ReachedMaxStrikes(hr[g].count)
         THEN /\ banTasks' = [banTasks EXCEPT ![pk] = @ + 1]
              /\ strikes' = [strikes EXCEPT ![pk] = NoEntry]
              /\ banningCooldown' = [banningCooldown EXCEPT ![pk] = LruAdd(0, CooldownTTL)]
              /\ abHist' = [abHist EXCEPT ![pk] = Append(@, now)]
              /\ firstStrike' = [firstStrike EXCEPT ![pk] = 0]
              /\ hr' = [hr EXCEPT ![g] = [IdleHR EXCEPT !.last = "banned"]]
         ELSE /\ hr' = [hr EXCEPT ![g] = [IdleHR EXCEPT !.last = "counted"]]
              /\ UNCHANGED <<banTasks, strikes, banningCooldown, abHist, firstStrike>>
    /\ UNCHANGED <<now, abEnabled, banCalls>>

\* banUser: the goroutine calls f.store.BanAuthor(banCtx, pubkey, ...); the
\* call fails (ok = FALSE) when the store fails or the context is done.
BanUser(pk, ok) ==
    /\ banTasks[pk] > 0
    /\ banTasks' = [banTasks EXCEPT ![pk] = @ - 1]
    /\ banCalls' = [banCalls EXCEPT ![pk] = @ + 1]
    /\ banStore' = IF ok THEN banStore \cup {pk} ELSE banStore
    /\ UNCHANGED <<now, abEnabled, strikes, banningCooldown, mu, hr, abHist, firstStrike>>

\* time passes
Tick ==
    /\ now < MaxTime
    /\ now' = now + 1
    /\ UNCHANGED <<abEnabled, strikes, banningCooldown, mu, hr, banTasks, banCalls,
                   abHist, firstStrike>>

(***************************************************************************)
(* Part II - properties of the auto-ban handler                            *)
(***************************************************************************)
\* C9: with max-strikes = k the k-th counted rejection of a pubkey decides
\* exactly one ban, which makes exactly one BanAuthor call; no ban is decided
\* for a pubkey while its cooldown entry is live, so two bans of one pubkey
\* are more than the cooldown apart; this under concurrent HandleRejection
\* calls.
C9_AutoBanAtMostOnce ==
    /\ [](\A pk \in PubKeys :
            /\ banCalls[pk] + banTasks[pk] = Len(abHist[pk])
            /\ \A i, j \in 1..Len(abHist[pk]) :
                  i < j => abHist[pk][j] > abHist[pk][i] + CooldownTTL
            /\ (mu = 0 /\ LruLive(strikes[pk])) => strikes[pk].value < MaxStrikes)
    /\ [][ /\ \A g \in HRProcs :
                (hr[g].pc = "counted" /\ hr'[g].pc = "idle") =>
                    Len(abHist'[hr[g].pubkey]) = Len(abHist[hr[g].pubkey])
                        + (IF hr[g].count >= MaxStrikes THEN 1 ELSE 0)
           /\ \A pk \in PubKeys :
                LruLive(banningCooldown[pk]) =>
                    /\ abHist'[pk] = abHist[pk]
                    /\ banTasks'[pk] <= banTasks[pk]
         ]_vars

\* a pubkey has been banned once, its cooldown entry is live, and a
\* concurrent HandleRejection call for it that passed the first cooldown
\* check is waiting for the mutex
C9_Witness ==
    \E pk \in PubKeys, g \in HRProcs :
        /\ Len(abHist[pk]) = 1
        /\ banCalls[pk] = 1
        /\ LruLive(banningCooldown[pk])
        /\ hr[g].pc = "lock" /\ hr[g].pubkey = pk

\* C26 as stated: a strike record lives for strike-window from its first
\* strike: a rejection counted more than strike-window after the first strike
\* of the stored record starts a new record with count 1, and no ban is
\* decided by a rejection that arrives more than strike-window after the
\* first strike of the record it is counted in.
C26_AsStated ==
    [][ \A g \in HRProcs :
          (/\ hr[g].pc = "lock" /\ hr'[g].pc = "counted"
           /\ strikes[hr[g].pubkey].present
           /\ now > firstStrike[hr[g].pubkey] + StrikeWindow) =>
              /\ hr'[g].count = 1
              /\ firstStrike'[hr[g].pubkey] = now
      ]_vars

\* C27: the cooldown suppresses strike counting: a pubkey with a live
\* cooldown entry has no strike record, no step taken while the cooldown
\* entry is live creates or changes its strike record, and a ban is decided
\* by a record whose count is exactly max-strikes, so the ban after a
\* cooldown takes max-strikes rejections counted after it.
C27_CooldownSuppressesStrikes ==
    /\ [](\A pk \in PubKeys :
            LruLive(banningCooldown[pk]) => strikes[pk] = NoEntry)
    /\ [][ /\ \A pk \in PubKeys :
                LruLive(banningCooldown[pk]) => strikes'[pk] = strikes[pk]
           /\ \A g \in HRProcs :
                (hr[g].pc = "counted" /\ hr'[g].last = "banned") =>
                    hr[g].count = MaxStrikes
         ]_vars

\* a call that passed the first cooldown check took the mutex while the
\* cooldown entry of its pubkey was live and counted nothing; later, the
\* cooldown over, the pubkey was banned a second time
C27_Witness ==
    \E pk \in PubKeys :
        /\ Len(abHist[pk]) = 2
        /\ \E g \in HRProcs : hr[g].last = "cooldown"
        /\ LruLive(banningCooldown[pk])

\* C36 as stated: whenever a ban of a pubkey has been decided (its strike
\* count reached max-strikes), the ban store eventually holds the pubkey,
\* also when a BanAuthor call fails.
C36_AsStated ==
    \A pk \in PubKeys : [](Len(abHist[pk]) > 0 => <>(pk \in banStore))

\* C12 as stated: every key written to the ban store is the lowercase form
\* of the pubkey, whichever component writes it.
C12_AsStated == \A pk \in banStore : pk = ToLower(pk)

(***************************************************************************)
(* Part III - the ban store and BannedAuthorFilter.isBanned                *)
(***************************************************************************)
\* goroutines calling isBanned
NumLookups == 3
\* store lookups made per key before the model stops issuing them
MaxStoreCalls == 3

Lookups == 1..NumLookups

\* the strings that can be keys of the cache, of the single-flight group and
\* of the store
Keys == PubKeys \cup {ToLower(pk) : pk \in PubKeys}

\* BadgerStore.IsAuthorBanned: the key "ban:" + pubkey exists
IsAuthorBanned(k) == k \in banStore

\* An isBanned call that has not started.  key is the normalised pubkey;
\* banned is history: the pubkey as given, when its lowercase form had a ban
\* record in the store as the call started, with no not-banned verdict
\* cached and no store call under way for it, and has had it ever since;
\* empty otherwise.
IdleLookup == [pc |-> "idle", key |-> <<>>, res |-> "none", banned |-> <<>>]

\* a singleflight call that is not in progress
NoFlight == [active |-> FALSE, leader |-> 0]

\* S: the contents the ban store can have when the process starts
InitBA(S) ==
    /\ banStore \in S
    /\ cache = [k \in Keys |-> "none"]
    /\ sf = [k \in Keys |-> NoFlight]
    /\ lk = [g \in Lookups |-> IdleLookup]
    /\ baHist = [k \in Keys |-> [calls |-> 0, failed |-> FALSE, firstWave |-> TRUE]]

\* the verdict a cache entry or a store answer stands for
Verdict(banned) == IF banned THEN "banned" ELSE "clean"

\* a single-flight function that goes to the store without asking the cache
RecheckSkipped(k) == FALSE

\* line 66: the cache is asked again inside the single-flight function
RecheckHit(k) == cache[k] # "none"

\* a lookup that uses the pubkey as it comes
rawPubkey(pubkey) == pubkey

\* line 59: normalizedPubkey := strings.ToLower(pubkey)
normalizedPubkey(pubkey) == ToLower(pubkey)

\* isBanned lines 59-63: normalise, then the first cache lookup
LookupStart(g, pk) ==
    /\ lk[g].pc = "idle"
    /\ LET k == normalizedPubkey(pk)
           b == IF ToLower(pk) \in banStore /\ cache[ToLower(pk)] # "clean"
                      /\ ~sf[ToLower(pk)].active
                  THEN pk ELSE <<>>
       IN
       lk' = [lk EXCEPT ![g] =
                IF cache[k] # "none"
                  THEN [pc |-> "done", key |-> k, res |-> cache[k], banned |-> b]
                  ELSE [pc |-> "do", key |-> k, res |-> "none", banned |-> b]]
    /\ UNCHANGED <<banStore, cache, sf, baHist>>

\* f.sf.Do(key, fn): join the call in progress for the key, or start one
SfDo(g) ==
    /\ lk[g].pc = "do"
    /\ LET k == lk[g].key IN
       IF sf[k].active
         THEN /\ lk' = [lk EXCEPT ![g].pc = "wait"]
              /\ UNCHANGED sf
         ELSE /\ lk' = [lk EXCEPT ![g].pc = "fn"]
              /\ sf' = [sf EXCEPT ![k] = [active |-> TRUE, leader |-> g]]
    /\ UNCHANGED <<banStore, cache, baHist>>

\* lines 66-69: inside fn, the second cache lookup; on a miss the store call
\* f.store.IsAuthorBanned is issued
FnCheck(g) ==
    /\ lk[g].pc = "fn"
    /\ LET k == lk[g].key IN
       IF RecheckHit(k)
         THEN /\ lk' = [lk EXCEPT ![g].pc = "finish", ![g].res = cache[k]]
              /\ UNCHANGED baHist
         ELSE /\ baHist[k].calls < MaxStoreCalls
              /\ lk' = [lk EXCEPT ![g].pc = "store"]
              /\ baHist' = [baHist EXCEPT ![k].calls = @ + 1]
    /\ UNCHANGED <<banStore, cache, sf>>

\* lines 69-74: the store call returns; an answer is cached, an error is not
StoreReturn(g, ok) ==
    /\ lk[g].pc = "store"
    /\ LET k == lk[g].key IN
       IF ok
         THEN /\ cache' = [cache EXCEPT ![k] = Verdict(IsAuthorBanned(k))]
              /\ lk' = [lk EXCEPT ![g].pc = "finish", ![g].res = Verdict(IsAuthorBanned(k))]
              /\ UNCHANGED baHist
         ELSE /\ lk' = [lk EXCEPT ![g].pc = "finish", ![g].res = "error"]
              /\ baHist' = [baHist EXCEPT ![k].failed = TRUE]
              /\ UNCHANGED cache
    /\ UNCHANGED <<banStore, sf>>

\* singleflight: fn has returned; the call is forgotten and every goroutine
\* waiting on it gets the leader's result
FlightDone(g) ==
    /\ lk[g].pc = "finish"
    /\ LET k == lk[g].key IN
       /\ sf' = [sf EXCEPT ![k] = NoFlight]
       /\ lk' = [h \in Lookups |->
                   IF h = g \/ (lk[h].pc = "wait" /\ lk[h].key = k)
                     THEN [lk[h] EXCEPT !.pc = "done", !.res = lk[g].res]
                     ELSE lk[h]]
    /\ UNCHANGED <<banStore, cache, baHist>>

\* isBanned returns (lines 62 and 77-80) and its caller goes on
LookupReturn(g) ==
    /\ lk[g].pc = "done"
    /\ lk' = [lk EXCEPT ![g] = IdleLookup]
    /\ baHist' = [baHist EXCEPT ![lk[g].key].firstWave = FALSE]
    /\ UNCHANGED <<banStore, cache, sf>>

\* the cache entry of k reaches its TTL (defaultCacheTTL) or is evicted
CacheExpire(k) ==
    /\ cache[k] # "none"
    /\ cache' = [cache EXCEPT ![k] = "none"]
    /\ baHist' = [baHist EXCEPT ![k].firstWave = FALSE]
    /\ UNCHANGED <<banStore, sf, lk>>

\* BadgerStore.BanAuthor, called by the moderator stage or by banUser
BanAuthor(pk) ==
    /\ pk \notin banStore
    /\ banStore' = banStore \cup {pk}
    /\ UNCHANGED <<cache, sf, lk, baHist>>

\* BadgerStore.UnbanAuthor, called by the moderator stage
UnbanAuthor(pk) ==
    /\ pk \in banStore
    /\ banStore' = banStore \ {pk}
    /\ lk' = [g \in Lookups |->
                IF ToLower(lk[g].banned) = pk
                  THEN [lk[g] EXCEPT !.banned = <<>>] ELSE lk[g]]
    /\ UNCHANGED <<cache, sf, baHist>>

\* BannedAuthorFilter.Match lines 90-96 and 117: the result made of what
\* isBanned returned for event.PubKey (no delegation tag on the event)
BannedAuthorMatch(res) ==
    CASE res = "error"  -> Result("BannedAuthorFilter", FALSE, "internal_author_check_failed", TRUE, FALSE)
      [] res = "banned" -> Result("BannedAuthorFilter", FALSE, "author_banned", FALSE, FALSE)
      [] OTHER          -> Result("BannedAuthorFilter", TRUE, "author_not_banned", FALSE, FALSE)

(***************************************************************************)
(* Part III - properties of the banned-author lookup                       *)
(***************************************************************************)
\* the store calls in flight for key k
InFlight(k) == {g \in Lookups : lk[g].pc = "store" /\ lk[g].key = k}

\* a step issues a store call for key k
StoreCallStarts(k) == baHist'[k].calls > baHist[k].calls

\* C11: while the ban record of lowercase(x) is in the store, a lookup for an
\* event whose pubkey is x in either case asks the cache and the store for
\* lowercase(x), and Match rejects the event.
C11_CaseInsensitiveBanLookup ==
    \A g \in Lookups :
        lk[g].banned # <<>> =>
            /\ lk[g].key = ToLower(lk[g].banned)
            /\ lk[g].pc = "done" => ~BannedAuthorMatch(lk[g].res).Allowed

\* the ban record of lowercase(x) is in the store, and two lookups, one for
\* x in lowercase and one for x in uppercase, have both answered banned
C11_Witness ==
    \E g, h \in Lookups :
        /\ lk[g].pc = "done" /\ lk[g].res = "banned"
        /\ lk[h].pc = "done" /\ lk[h].res = "banned"
        /\ lk[g].banned # <<>> /\ lk[g].banned = ToLower(lk[g].banned)
        /\ lk[h].banned # <<>> /\ lk[h].banned # ToLower(lk[h].banned)
        /\ ToLower(lk[h].banned) = lk[g].banned
        /\ lk[g].banned \in banStore

C25_AsStated ==
    [][ \A g \in Lookups :
          (lk[g].pc = "idle" /\ lk'[g].pc = "done" /\ lk'[g].key \in banStore) =>
              ~BannedAuthorMatch(lk'[g].res).Allowed ]_vars

(***************************************************************************)
(* Part IV - ModerationFilter                                              *)
(***************************************************************************)
\* Match calls made before the model stops
MaxModCalls == 3
\* the values of policy.ban_duration, in ticks
BanDurations == {1, 2}

NoModCall ==
    [ n |-> 0, ev |-> [kind |-> 0, pubkey |-> <<>>, ptag |-> <<>>, content |-> ""],
      ok |-> TRUE, res |-> ModAccept("none") ]

\* K: the values of policy.moderator_pubkey; D: those of policy.ban_duration
InitMod(K, D) ==
    /\ moderatorPubKey \in K
    /\ banDuration \in D
    /\ banTTL = [t \in ModTargets |-> 0]
    /\ delTasks = [t \in ModTargets |-> 0]
    /\ delCalls = [t \in ModTargets |-> 0]
    /\ modLast = NoModCall

\* a ban that starts no delete-by-author goroutine
ModDeleteNotRequested(tasks, t) == tasks

\* lines 64-68: go func() { f.sf.DeleteEventsByAuthor(pubkeyToModify) }()
ModDeleteRequested(tasks, t) == [tasks EXCEPT ![t] = @ + 1]

\* ModerationFilter.Match on event ev; ok is the outcome of the store call,
\* if the event leads to one.
ModMatch(ev, ok) ==
    /\ modLast.n < MaxModCalls
    /\ LET out == ModerationOutcome(moderatorPubKey, ev, ok)
           t   == out.target
       IN  /\ modLast' = [n |-> modLast.n + 1, ev |-> ev, ok |-> ok, res |-> out.res]
           /\ CASE out.effect = "ban" ->
                      /\ banStore' = banStore \cup {t}
                      /\ banTTL' = [banTTL EXCEPT ![t] = banDuration]
                      /\ delTasks' = ModDeleteRequested(delTasks, t)
                [] out.effect = "unban" ->
                      /\ banStore' = banStore \ {t}
                      /\ banTTL' = [banTTL EXCEPT ![t] = 0]
                      /\ UNCHANGED delTasks
                [] OTHER -> UNCHANGED <<banStore, banTTL, delTasks>>
    /\ UNCHANGED <<moderatorPubKey, banDuration, delCalls>>

\* the goroutine started by a ban runs: strfry's delete-by-author is called
\* (a failure is only logged)
DeleteEventsByAuthor(t) ==
    /\ delTasks[t] > 0
    /\ delTasks' = [delTasks EXCEPT ![t] = @ - 1]
    /\ delCalls' = [delCalls EXCEPT ![t] = @ + 1]
    /\ UNCHANGED <<moderatorPubKey, banDuration, banTTL, modLast, banStore>>

(***************************************************************************)
(* Part IV - properties of the moderator stage                             *)
(***************************************************************************)
\* the step is a Match call
ModMatchStep == modLast'.n = modLast.n + 1

\* the event is a reaction of the configured moderator with the ban emoji
\* whose p tag names a valid key other than the moderator's
IsBanReaction(ev) ==
    /\ moderatorPubKey # <<>>
    /\ ev.kind = KindReaction /\ ev.pubkey = moderatorPubKey
    /\ ev.content = BanEmoji
    /\ Len(ev.ptag) >= 2
    /\ IsValidPublicKey(ev.ptag[2]) /\ ev.ptag[2] # moderatorPubKey

\* the Match call of this step returns accept, the store then holds the ban
\* record of the target with the configured duration, and one more
\* delete-by-author is requested for the target and for no other key
BanExecuted(t) ==
    /\ Accepted(modLast'.res)
    /\ t \in banStore' /\ banTTL'[t] = banDuration
    /\ delTasks' = [delTasks EXCEPT ![t] = @ + 1]

\* every delete-by-author call is the one requested by a ban
DeleteCallsAreRequested ==
    \A t \in ModTargets :
        delCalls'[t] # delCalls[t] =>
            delCalls'[t] = delCalls[t] + 1 /\ delTasks'[t] = delTasks[t] - 1

IsNoModerationEvent(ev) ==
    \/ moderatorPubKey = <<>>
    \/ ev.kind # KindReaction
    \/ ev.pubkey # moderatorPubKey
    \/ Len(ev.ptag) < 2
    \/ ~(Len(ev.ptag[2]) = 2 /\ \A i \in 1..2 : ev.ptag[2][i] \in HexDigits)
    \/ ev.ptag[2] = moderatorPubKey
    \/ ev.content \notin {BanEmoji, UnbanEmoji}

\* C40: a Match call of the moderator stage on an event it does not act on
\* (no moderator key, not a reaction, another author, no p tag, invalid
\* target or the moderator itself, content that is neither emoji) accepts it
\* with no error whatever the state of the store, and leaves the ban
\* records and the requested and made delete-by-author calls as they were;
\* a Match call on any other event with the unban emoji removes at most the
\* ban record of its target, removes it when the store call succeeds, and
\* requests no delete.
C40_NoSideEffect ==
    [][ ModMatchStep =>
          LET ev == modLast'.ev
          IN  /\ IsNoModerationEvent(ev) =>
                    /\ Accepted(modLast'.res)
                    /\ UNCHANGED <<banStore, banTTL, delTasks, delCalls>>
              /\ (~IsNoModerationEvent(ev) /\ ev.content = UnbanEmoji) =>
                    /\ modLast'.res.Allowed
                    /\ banStore' \in {banStore, banStore \ {ev.ptag[2]}}
                    /\ modLast'.ok => ev.ptag[2] \notin banStore'
                    /\ \A t \in ModTargets \ {ev.ptag[2]} : banTTL'[t] = banTTL[t]
                    /\ UNCHANGED <<delTasks, delCalls>>
      ]_vars

\* the last Match call was an unban reaction that took a ban record away,
\* the record being that of a moderator ban whose delete had been called, and
\* no further delete is requested
C40_Witness ==
    /\ modLast.ev.content = UnbanEmoji /\ modLast.ok
    /\ modLast.res.Reason = <<"ModerationFilter", "moderator_unban_executed">>
    /\ LET t == modLast.ev.ptag[2]
       IN  t \notin banStore /\ delCalls[t] = 1 /\ delTasks[t] = 0

(***************************************************************************)
(* Part V - RateLimiterFilter                                              *)
(***************************************************************************)
\* Match calls made before the model stops
MaxRLCalls == 2

\* cfg.Rules, cfg.DefaultRate and cfg.DefaultBurst.  Rates are in tokens per
\* tick.  Kind 7 is listed by two rules; the third rule has rate 0.
RLConfig ==
    [ DefaultRate  |-> 1,
      DefaultBurst |-> 2,
      Rules |-> << [Description |-> "first",  Kinds |-> {7},    Rate |-> 1, Burst |-> 2],
                   [Description |-> "second", Kinds |-> {7},    Rate |-> 1, Burst |-> 1],
                   [Description |-> "zero",   Kinds |-> {5},    Rate |-> 0, Burst |-> 1] >> ]

\* the kinds, authors and remote addresses of the events
RLKinds == {5, 7, 9}
RLPubKeys == {"a", "b"}
RLAddrs == {"", "1.1.1.1", "2.2.2.2"}
RLEvents == [kind : RLKinds, pubkey : RLPubKeys, ip : RLAddrs]

\* the values of cfg.By
RateBy == {"ip", "pubkey", "both", ""}

\* line 49: id: "rule-" + strconv.Itoa(i), for the rule at position i + 1
RuleID(i) == <<"rule", i - 1>>
DefaultRuleID == <<"default">>
RuleIDs == {RuleID(i) : i \in 1..Len(RLConfig.Rules)} \cup {DefaultRuleID}

\* NewRateLimiterFilter lines 43-54: the loop that fills kindMap, from rule i
\* on; m[kind] is the position of the rule stored for the kind, 0 for none
RECURSIVE BuildKindMap(_, _, _)
BuildKindMap(rules, i, m) ==
    IF i > Len(rules)
      THEN m
      ELSE BuildKindMap(rules, i + 1,
                        [k \in RLKinds |-> IF k \in rules[i].Kinds THEN i ELSE m[k]])

kindToRule == BuildKindMap(RLConfig.Rules, 1, [k \in RLKinds |-> 0])

\* Match lines 77-87: the rate, burst, id and description that apply to a kind
SelectRule(kind) ==
    IF kindToRule[kind] # 0
      THEN LET rule == RLConfig.Rules[kindToRule[kind]]
           IN  [rate |-> rule.Rate, burst |-> rule.Burst,
                id |-> RuleID(kindToRule[kind]), description |-> rule.Description]
      ELSE [rate |-> RLConfig.DefaultRate, burst |-> RLConfig.DefaultBurst,
            id |-> DefaultRuleID, description |-> "default"]

\* Match lines 93-112: the subjects an event is limited by, in order
UserKeys(by, ev) ==
    LET ipKey == IF ev.ip # "" THEN << <<"ip", ev.ip>> >> ELSE <<>>
        pkKey == IF ev.pubkey # "" THEN << <<"pk", ev.pubkey>> >> ELSE <<>>
    IN  CASE by = "ip"     -> ipKey
          [] by = "pubkey" -> pkKey
          [] by = "both"   -> ipKey \o pkKey
          [] OTHER         -> <<>>

\* a cache key that leaves the rule out
cacheKeyOfSubject(ruleID, userKey) == <<DefaultRuleID, userKey>>

\* line 115: cacheKey := fmt.Sprintf("%s:%s", ruleID, userKey)
cacheKey(ruleID, userKey) == <<ruleID, userKey>>

RLSubjects == {<<"ip", a>> : a \in RLAddrs \ {""}} \cup {<<"pk", k>> : k \in RLPubKeys}
RLCacheKeys == {<<id, u>> : id \in RuleIDs, u \in RLSubjects}

\* no entry in the cache of buckets
NoLimiter == [present |-> FALSE, tokens |-> 0, rate |-> 0, burst |-> 0]

\* line 129: rate.NewLimiter(rate.Limit(r), b), a bucket that starts full
NewLimiter(r, b) == [present |-> TRUE, tokens |-> b, rate |-> r, burst |-> b]

\* getLimiter lines 125-132: the bucket of the key, made and stored if missing
getLimiter(lims, key, r, b) == IF lims[key].present THEN lims[key] ELSE NewLimiter(r, b)

\* The loop of Match lines 114-121 from position i of the user keys: the
\* cache of buckets it leaves, and whether every bucket asked allowed.
RECURSIVE AllowLoop(_, _, _, _)
AllowLoop(lims, keys, i, sel) ==
    IF i > Len(keys)
      THEN [limiters |-> lims, allowed |-> TRUE]
      ELSE LET key     == cacheKey(sel.id, keys[i])
               limiter == getLimiter(lims, key, sel.rate, sel.burst)
           IN  IF limiter.tokens >= 1
                 THEN AllowLoop([lims EXCEPT ![key] = [limiter EXCEPT !.tokens = @ - 1]],
                                keys, i + 1, sel)
                 ELSE [limiters |-> [lims EXCEPT ![key] = limiter], allowed |-> FALSE]

\* the part of a result that tells rules apart
RLResult(allowed, reason) ==
    Result("RateLimiterFilter", allowed, reason, FALSE, FALSE)

InitRL(E, B) ==
    /\ rlCfg \in [Enabled : E, By : B]
    /\ limiters = [key \in RLCacheKeys |-> NoLimiter]
    /\ rlLog = <<>>

\* RateLimiterFilter.Match on event ev
RLMatch(ev) ==
    /\ Len(rlLog) < MaxRLCalls
    /\ LET sel == SelectRule(ev.kind)
           out == AllowLoop(limiters, UserKeys(rlCfg.By, ev), 1, sel)
           Log(rule, res) ==
               Append(rlLog, [ev |-> ev, rule |-> rule, res |-> res])
       IN  IF ~rlCfg.Enabled
             THEN /\ rlLog' = Log(<<>>, RLResult(TRUE, <<"filter_disabled">>))
                  /\ UNCHANGED limiters
           ELSE IF sel.rate <= 0
             THEN /\ rlLog' = Log(sel.id, RLResult(TRUE, <<"rate_unlimited_for_kind">>))
                  /\ UNCHANGED limiters
           ELSE /\ limiters' = out.limiters
                /\ rlLog' = Log(sel.id,
                                IF out.allowed
                                  THEN RLResult(TRUE, <<"rate_limit_ok">>)
                                  ELSE RLResult(FALSE, <<"rate_limit_exceeded:rule:", sel.description>>))
    /\ UNCHANGED rlCfg

\* time passes: every bucket gains its rate in tokens, up to its burst
RLTick ==
    /\ limiters' = [key \in RLCacheKeys |->
                      LET l == limiters[key]
                      IN  IF l.present
                            THEN [l EXCEPT !.tokens =
                                     IF @ + l.rate > l.burst THEN l.burst ELSE @ + l.rate]
                            ELSE l]
    /\ UNCHANGED <<rlCfg, rlLog>>

\* the entry of a key reaches the TTL of the cache or is evicted
RLEvict(key) ==
    /\ limiters[key].present
    /\ limiters' = [limiters EXCEPT ![key] = NoLimiter]
    /\ UNCHANGED <<rlCfg, rlLog>>

(***************************************************************************)
(* Part V - properties of the rate limiter                                 *)
(***************************************************************************)
\* the step is a Match call; the call made
RLMatchStep == Len(rlLog') = Len(rlLog) + 1
RLCall == rlLog'[Len(rlLog')]

\* the rate and burst configured for a rule id
RuleParams(id) ==
    IF id = DefaultRuleID
      THEN [rate |-> RLConfig.DefaultRate, burst |-> RLConfig.DefaultBurst]
      ELSE [rate |-> RLConfig.Rules[id[2] + 1].Rate, burst |-> RLConfig.Rules[id[2] + 1].Burst]

\* the subjects by which an event is limited under the configured mode
SubjectsOf(ev) ==
    (IF rlCfg.By \in {"ip", "both"} /\ ev.ip # "" THEN {<<"ip", ev.ip>>} ELSE {})
    \cup (IF rlCfg.By \in {"pubkey", "both"} /\ ev.pubkey # "" THEN {<<"pk", ev.pubkey>>} ELSE {})

\* the tokens the bucket of a subject under a rule has to give: those of the
\* bucket in the cache, or a full burst when there is none
Avail(id, u) ==
    IF limiters[<<id, u>>].present THEN limiters[<<id, u>>].tokens ELSE RuleParams(id).burst

\* C15: a Match call under a rule with a positive rate is admitted exactly
\* when the bucket of each of its subjects under that rule has a token (the
\* IP for by=ip, the pubkey for by=pubkey, both for by=both); it takes one
\* token from each of them when admitted, and touches no bucket of another
\* subject or of another rule (the default rule included).
C15_BucketsByRuleAndSubject ==
    [][ (RLMatchStep /\ rlCfg.Enabled /\ RuleParams(RLCall.rule).rate > 0) =>
           LET id == RLCall.rule
               us == SubjectsOf(RLCall.ev)
           IN  /\ RLCall.res.Allowed <=> \A u \in us : Avail(id, u) >= 1
               /\ RLCall.res.Allowed =>
                     \A u \in us : /\ limiters'[<<id, u>>].present
                                    /\ limiters'[<<id, u>>].tokens = Avail(id, u) - 1
               /\ \A key \in RLCacheKeys :
                     key \notin {<<id, u>> : u \in us} => limiters'[key] = limiters[key]
      ]_vars

\* with by=ip, two successive events of one kind came from the same address
\* with different pubkeys under a rule with burst 1: the first was admitted,
\* the second rejected
C15_Witness ==
    /\ rlCfg.Enabled /\ rlCfg.By = "ip"
    /\ Len(rlLog) = 2
    /\ rlLog[1].ev.ip = rlLog[2].ev.ip /\ rlLog[1].ev.ip # ""
    /\ rlLog[1].ev.pubkey # rlLog[2].ev.pubkey
    /\ rlLog[1].rule = rlLog[2].rule
    /\ RuleParams(rlLog[1].rule).burst = 1
    /\ rlLog[1].res.Allowed /\ ~rlLog[2].res.Allowed

\* C16 as stated: under a rule with rate 0 and burst b no subject is admitted
\* more than b times (no bucket of such a rule is ever evicted here).
C16_AsStated ==
    \A id \in RuleIDs, u \in RLSubjects :
        RuleParams(id).rate = 0 =>
            Cardinality({i \in DOMAIN rlLog :
                            /\ rlLog[i].rule = id
                            /\ u \in SubjectsOf(rlLog[i].ev)
                            /\ rlLog[i].res.Allowed}) <= RuleParams(id).burst

\* C17 as stated: the rule applied to an event is the first rule in
\* configuration order that lists its kind, the default when none does.
C17_AsStated ==
    \A i \in DOMAIN rlLog :
        LET S == {j \in 1..Len(RLConfig.Rules) : rlLog[i].ev.kind \in RLConfig.Rules[j].Kinds}
        IN  rlCfg.Enabled =>
               rlLog[i].rule = IF S = {} THEN DefaultRuleID
                               ELSE RuleID(CHOOSE j \in S : \A k \in S : j <= k)

(***************************************************************************)
(* Part VI - EmergencyFilter                                               *)
(***************************************************************************)
\* Match calls made before the model stops
MaxEmCalls == 3

\* cfg.NewKeysRate, cfg.NewKeysBurst, cfg.PerIP.Rate and cfg.PerIP.Burst, in
\* tokens per tick and tokens
EmConfig == [NewKeysRate |-> 1, NewKeysBurst |-> 2, PerIPRate |-> 1, PerIPBurst |-> 1]

\* the authors and remote addresses of the events; an address is a network
\* part and a host part
EmPubKeys == {"", "a", "b"}
EmAddrs == {<<>>, <<1, 1>>, <<1, 2>>, <<2, 1>>}
EmEvents == [pubkey : EmPubKeys, ip : EmAddrs]

\* the values of cfg.PerIP.IPv4Prefix: 0 for none, 1 for the network part
EmPrefixes == {0, 1}

\* a key that is the address itself, whatever the prefix
normalizeIPUnmasked(ip, v4Prefix) == ip

\* normalizeIPWithOptionalPrefixes: with a prefix the address is masked and
\* written as a network, without one it is written as it is
normalizeIPWithOptionalPrefixes(ip, v4Prefix) ==
    IF v4Prefix > 0 THEN <<ip[1], 0, "/", v4Prefix>> ELSE ip

EmIPKeys == {normalizeIPWithOptionalPrefixes(ip, p) : ip \in EmAddrs \ {<<>>}, p \in EmPrefixes}

EmResult(allowed, reason) == Result("EmergencyFilter", allowed, reason, FALSE, FALSE)

NoEmCall == [n |-> 0, ev |-> [pubkey |-> "", ip |-> <<>>], res |-> EmResult(TRUE, "none")]

\* E, P, X: the values of cfg.Enabled, cfg.PerIP.Enabled and
\* cfg.PerIP.IPv4Prefix; the global limiter exists only when enabled
InitEm(E, P, X) ==
    /\ emCfg \in [Enabled : E, PerIPEnabled : P, IPv4Prefix : X]
    /\ newKeyLimiter = EmConfig.NewKeysBurst
    /\ recentSeen = {}
    /\ perIPLimiters = [k \in EmIPKeys |-> NoLimiter]
    /\ emLast = NoEmCall

\* an emergency stage that never finds a pubkey in the cache
RecentlySeenNever(pk) == FALSE

\* line 219: _, ok := f.recentSeen.Get(pk)
RecentlySeen(pk) == pk \in recentSeen

\* EmergencyFilter.Match on event ev
EmMatch(ev) ==
    /\ emLast.n < MaxEmCalls
    /\ LET Ret(res) == emLast' = [n |-> emLast.n + 1, ev |-> ev, res |-> res]
           perIP == emCfg.PerIPEnabled /\ ev.ip # <<>>
           key   == normalizeIPWithOptionalPrefixes(ev.ip, emCfg.IPv4Prefix)
           lim   == IF perIPLimiters[key].present
                      THEN perIPLimiters[key]
                      ELSE NewLimiter(EmConfig.PerIPRate, EmConfig.PerIPBurst)
       IN  IF ~emCfg.Enabled
             THEN /\ Ret(EmResult(TRUE, "filter_disabled"))
                  /\ UNCHANGED <<newKeyLimiter, recentSeen, perIPLimiters>>
           ELSE IF ev.pubkey = ""
             THEN /\ Ret(EmResult(TRUE, "pubkey_empty"))
                  /\ UNCHANGED <<newKeyLimiter, recentSeen, perIPLimiters>>
           ELSE IF RecentlySeen(ev.pubkey)
             THEN /\ Ret(EmResult(TRUE, "pubkey_recently_seen"))
                  /\ UNCHANGED <<newKeyLimiter, recentSeen, perIPLimiters>>
           ELSE IF perIP /\ lim.tokens < 1
             THEN /\ Ret(EmResult(FALSE, "new_pubkey_rate_limit_exceeded_per_ip"))
                  /\ perIPLimiters' = [perIPLimiters EXCEPT ![key] = lim]
                  /\ UNCHANGED <<newKeyLimiter, recentSeen>>
           ELSE /\ perIPLimiters' = IF perIP
                                      THEN [perIPLimiters EXCEPT ![key] = [lim EXCEPT !.tokens = @ - 1]]
                                      ELSE perIPLimiters
                /\ IF newKeyLimiter < 1
                     THEN /\ Ret(EmResult(FALSE, "new_pubkey_rate_limit_exceeded_global"))
                          /\ UNCHANGED <<newKeyLimiter, recentSeen>>
                     ELSE /\ Ret(EmResult(TRUE, "new_pubkey_accepted"))
                          /\ newKeyLimiter' = newKeyLimiter - 1
                          /\ recentSeen' = recentSeen \cup {ev.pubkey}
    /\ UNCHANGED emCfg

\* time passes: every bucket gains its rate in tokens, up to its burst
EmTick ==
    /\ emCfg.Enabled
    /\ newKeyLimiter' = IF newKeyLimiter + EmConfig.NewKeysRate > EmConfig.NewKeysBurst
                          THEN EmConfig.NewKeysBurst
                          ELSE newKeyLimiter + EmConfig.NewKeysRate
    /\ perIPLimiters' = [k \in EmIPKeys |->
                           LET l == perIPLimiters[k]
                           IN  IF l.present
                                 THEN [l EXCEPT !.tokens =
                                          IF @ + l.rate > l.burst THEN l.burst ELSE @ + l.rate]
                                 ELSE l]
    /\ UNCHANGED <<emCfg, recentSeen, emLast>>

\* the entry of a pubkey in the seen cache reaches its TTL or is evicted
EmForget(pk) ==
    /\ pk \in recentSeen
    /\ recentSeen' = recentSeen \ {pk}
    /\ UNCHANGED <<emCfg, newKeyLimiter, perIPLimiters, emLast>>

\* the bucket of an address key reaches its TTL or is evicted
EmEvict(key) ==
    /\ perIPLimiters[key].present
    /\ perIPLimiters' = [perIPLimiters EXCEPT ![key] = NoLimiter]
    /\ UNCHANGED <<emCfg, newKeyLimiter, recentSeen, emLast>>

(***************************************************************************)
(* Part VI - properties of the emergency stage                             *)
(***************************************************************************)
\* the step is a Match call
EmMatchStep == emLast'.n = emLast.n + 1

\* C18: a Match call for a pubkey that has a live entry in the seen cache is
\* accepted and takes no token, neither from the global bucket nor from any
\* per-IP bucket, whatever those buckets hold.
C18_SeenPubkeyBypassesLimits ==
    [][ (EmMatchStep /\ emLast'.ev.pubkey \in recentSeen) =>
            /\ Accepted(emLast'.res)
            /\ newKeyLimiter' = newKeyLimiter
            /\ perIPLimiters' = perIPLimiters
            /\ recentSeen' = recentSeen ]_vars

\* an event of a seen pubkey was accepted while the global bucket and the
\* bucket of its address were both empty
C18_Witness ==
    /\ emLast.n > 0
    /\ emLast.res.Reason = <<"EmergencyFilter", "pubkey_recently_seen">>
    /\ emLast.ev.pubkey \in recentSeen
    /\ newKeyLimiter = 0
    /\ emCfg.PerIPEnabled /\ emLast.ev.ip # <<>>
    /\ LET key == normalizeIPWithOptionalPrefixes(emLast.ev.ip, emCfg.IPv4Prefix)
       IN  perIPLimiters[key].present /\ perIPLimiters[key].tokens = 0

\* C30: for a pubkey that is not in the seen cache the per-IP bucket, keyed
\* by the masked remote address (addresses of one prefix share a key), is
\* asked before the global bucket: a per-IP denial rejects with the per-IP
\* reason and takes no global token, a global denial rejects with the global
\* reason, and the pubkey enters the seen cache exactly when both buckets
\* admitted the event.
C30_PerIPBeforeGlobal ==
    /\ [](\A ip1, ip2 \in EmAddrs \ {<<>>} :
            emCfg.IPv4Prefix > 0 =>
                ((normalizeIPWithOptionalPrefixes(ip1, emCfg.IPv4Prefix)
                    = normalizeIPWithOptionalPrefixes(ip2, emCfg.IPv4Prefix))
                 <=> ip1[1] = ip2[1]))
    /\ [][ (/\ EmMatchStep
            /\ emCfg.Enabled
            /\ emLast'.ev.pubkey # ""
            /\ emLast'.ev.pubkey \notin recentSeen) =>
              LET ev    == emLast'.ev
                  perIP == emCfg.PerIPEnabled /\ ev.ip # <<>>
                  key   == normalizeIPWithOptionalPrefixes(ev.ip, emCfg.IPv4Prefix)
                  avail == IF perIPLimiters[key].present
                             THEN perIPLimiters[key].tokens
                             ELSE EmConfig.PerIPBurst
              IN  /\ \A k \in EmIPKeys :
                        (~perIP \/ k # key) => perIPLimiters'[k] = perIPLimiters[k]
                  /\ IF perIP /\ avail < 1
                       THEN /\ emLast'.res.Reason =
                                  <<"EmergencyFilter", "new_pubkey_rate_limit_exceeded_per_ip">>
                            /\ Denied(emLast'.res)
                            /\ newKeyLimiter' = newKeyLimiter
                            /\ recentSeen' = recentSeen
                            /\ perIPLimiters'[key].tokens = 0
                     ELSE IF newKeyLimiter < 1
                       THEN /\ emLast'.res.Reason =
                                  <<"EmergencyFilter", "new_pubkey_rate_limit_exceeded_global">>
                            /\ Denied(emLast'.res)
                            /\ newKeyLimiter' = newKeyLimiter
                            /\ recentSeen' = recentSeen
                     ELSE /\ Accepted(emLast'.res)
                          /\ newKeyLimiter' = newKeyLimiter - 1
                          /\ recentSeen' = recentSeen \cup {ev.pubkey}
                          /\ perIP => perIPLimiters'[key].tokens = avail - 1
         ]_vars

\* with a prefix configured, an event of an unseen pubkey was refused by the
\* bucket of its network while the global bucket still held a token, after
\* another pubkey had been admitted; the refused pubkey is not in the cache
C30_Witness ==
    /\ emLast.n > 1
    /\ emLast.res.Reason = <<"EmergencyFilter", "new_pubkey_rate_limit_exceeded_per_ip">>
    /\ emCfg.IPv4Prefix > 0
    /\ emLast.ev.ip = <<1, 2>>
    /\ emLast.ev.pubkey \notin recentSeen
    /\ recentSeen # {}
    /\ newKeyLimiter > 0

(***************************************************************************)
(* Part VII - RepostAbuseFilter                                            *)
(***************************************************************************)
\* events counted for one author, beyond min_events, before the model stops
\* calling Match
MaxRAExtra == 4
\* the last instant of the clock
MaxRATime == 1
\* nostr.KindRepost and nostr.KindGenericRepost
KindRepost == 6
KindGenericRepost == 16

RAPubKeys == {"bob"}
\* the first element of the event's only tag ("" for no tag), and whether
\* the content holds a naddr1/nevent1/note1 reference
RATags == {"", "q", "Q"}
RAEvents ==
    [kind : {KindTextNote}, pubkey : RAPubKeys, tag : RATags, ref : BOOLEAN] \cup
    [kind : {KindRepost, KindGenericRepost, KindReaction}, pubkey : RAPubKeys,
     tag : {""}, ref : {FALSE}]

\* a ratio is a pair <<numerator, denominator>>; the configured values of
\* max_ratio, min_events and reset_duration
RARatios == {<<1, 2>>, <<3, 2>>}
RAMinEvents == {1}
RAResets == {0, 1}

\* NewRepostAbuseFilter lines 39-43: max_ratio is brought into [0, 1]
ClampRatio(q) ==
    IF q[1] < 0 THEN <<0, 1>> ELSE IF q[1] > q[2] THEN <<1, 1>> ELSE q

\* the zero time.Time
ZeroTime == -1

\* &UserActivityStats{}, and the absence of an entry
NewStats == [present |-> TRUE, OriginalPosts |-> 0, Reposts |-> 0, LastEventTime |-> ZeroTime]
NoStats == [NewStats EXCEPT !.present = FALSE]

\* strings.EqualFold on tag names
FoldChar(ch) == IF ch = "Q" THEN "q" ELSE ToLowerChar(ch)
EqualFold(a, b) == FoldChar(a) = FoldChar(b)

\* hasTag(ev, "q") and contentHasNIP21Ref(ev.Content)
hasTag(ev, tagName) == ev.tag # "" /\ EqualFold(ev.tag, tagName)
contentHasNIP21Ref(ev) == ev.ref

\* isRepostNIP18
isRepostNIP18(cfg, ev) ==
    \/ ev.kind = KindRepost
    \/ ev.kind = KindGenericRepost
    \/ /\ ev.kind = KindTextNote
       /\ hasTag(ev, "q")
       /\ (~cfg.RequireNIP21InQuote \/ contentHasNIP21Ref(ev))

\* counters that are never reset
SoftResetNever(cfg, st, t) == st

\* lines 67-70 and 103-106: the counters after the soft reset
SoftReset(cfg, st, t) ==
    IF cfg.ResetDuration > 0 /\ st.LastEventTime # ZeroTime
          /\ t - st.LastEventTime > cfg.ResetDuration
      THEN [st EXCEPT !.OriginalPosts = 0, !.Reposts = 0]
      ELSE st

\* a decision that never rejects
RatioNeverTooHigh(cfg, copy) == FALSE

\* lines 79-87: the predicted ratio reaches the limit
RatioTooHigh(cfg, copy) ==
    LET total == copy.OriginalPosts + copy.Reposts
        predictedReposts == copy.Reposts + 1
        predictedTotal == total + 1
    IN  /\ total >= cfg.MinEvents
        /\ predictedReposts * cfg.MaxRatio[2] >= cfg.MaxRatio[1] * predictedTotal

RAResult(allowed, reason) == Result("RepostAbuseFilter", allowed, reason, FALSE, FALSE)

\* statsCopy, as far as the decision reads it
Counters(st) == [OriginalPosts |-> st.OriginalPosts, Reposts |-> st.Reposts]
IdleRA == [pc |-> "idle", ev |-> <<>>, copy |-> Counters(NoStats)]
NoRACall == [pubkey |-> "", checked |-> FALSE, isRepost |-> FALSE,
             copy |-> Counters(NoStats), res |-> RAResult(TRUE, "none")]

\* NewRepostAbuseFilter on the configuration as written in the file
NewRepostAbuseFilter(c) == [c EXCEPT !.MaxRatio = ClampRatio(@)]

\* the configuration of TestRepostAbuseFilter_RejectsTooManyReposts, and the
\* configurations the filter is built from
RATestConfig == [Enabled |-> TRUE, MaxRatio |-> <<1, 2>>, MinEvents |-> 4, ResetDuration |-> 0,
                 CountRejectAsActivity |-> TRUE, RequireNIP21InQuote |-> TRUE]
RAConfigs ==
    {RATestConfig, [RATestConfig EXCEPT !.Enabled = FALSE]} \cup
    [Enabled : {TRUE}, MaxRatio : RARatios, MinEvents : RAMinEvents, ResetDuration : RAResets,
     CountRejectAsActivity : {FALSE}, RequireNIP21InQuote : {FALSE}]

\* C: the configurations; G: the goroutines calling Match
InitRA(C, G) ==
    /\ raCfg \in {NewRepostAbuseFilter(c) : c \in C}
    /\ stats = [pk \in RAPubKeys |-> NoStats]
    /\ ra = [p \in G |-> IdleRA]
    /\ raNow = 0
    /\ raLast = NoRACall

RAReturn(p, ev, checked, copy, res) ==
    /\ raLast' = [pubkey |-> ev.pubkey, checked |-> checked,
                  isRepost |-> checked /\ isRepostNIP18(raCfg, ev), copy |-> copy, res |-> res]
    /\ ra' = [ra EXCEPT ![p] = IdleRA]

\* Match lines 53-73: the early returns, then the first critical section,
\* which resets the stored counters in place and copies them
RAStart(p, ev) ==
    /\ ra[p].pc = "idle"
    /\ stats[ev.pubkey].OriginalPosts + stats[ev.pubkey].Reposts
         + Cardinality({q \in DOMAIN ra : ra[q].pc # "idle"}) < raCfg.MinEvents + MaxRAExtra
    /\ IF ~raCfg.Enabled
         THEN /\ RAReturn(p, ev, FALSE, Counters(NoStats), RAResult(TRUE, "filter_disabled"))
              /\ UNCHANGED stats
       ELSE IF ev.kind \notin {KindTextNote, KindRepost, KindGenericRepost}
         THEN /\ RAReturn(p, ev, FALSE, Counters(NoStats), RAResult(TRUE, "kind_not_checked"))
              /\ UNCHANGED stats
       ELSE LET st == IF stats[ev.pubkey].present
                        THEN SoftReset(raCfg, stats[ev.pubkey], raNow)
                        ELSE NewStats
            IN  /\ stats' = IF stats[ev.pubkey].present
                               THEN [stats EXCEPT ![ev.pubkey] = st]
                               ELSE stats
                /\ ra' = [ra EXCEPT ![p] = [pc |-> "decide", ev |-> ev, copy |-> Counters(st)]]
                /\ UNCHANGED raLast
    /\ UNCHANGED <<raCfg, raNow>>

\* a commit that counts the rejected events too
RACommitCountsRejected(p) ==
    /\ ra[p].pc = "decide"
    /\ LET ev       == ra[p].ev
           isRepost == isRepostNIP18(raCfg, ev)
           rejected == isRepost /\ RatioTooHigh(raCfg, ra[p].copy)
           fresh    == SoftReset(raCfg,
                                 IF stats[ev.pubkey].present THEN stats[ev.pubkey] ELSE NewStats,
                                 raNow)
           timed    == [fresh EXCEPT !.LastEventTime = raNow]
           counted  == IF isRepost THEN [timed EXCEPT !.Reposts = @ + 1]
                       ELSE [timed EXCEPT !.OriginalPosts = @ + 1]
       IN  /\ stats' = [stats EXCEPT ![ev.pubkey] = counted]
           /\ RAReturn(p, ev, TRUE, ra[p].copy,
                       IF rejected THEN RAResult(FALSE, "repost_ratio_too_high")
                                   ELSE RAResult(TRUE, "repost_ratio_ok"))
    /\ UNCHANGED <<raCfg, raNow>>

\* Match lines 75-125: the decision on the copy, then the second critical
\* section, which fetches the entry again, updates and stores it
RACommit(p) ==
    /\ ra[p].pc = "decide"
    /\ LET ev       == ra[p].ev
           isRepost == isRepostNIP18(raCfg, ev)
           rejected == isRepost /\ RatioTooHigh(raCfg, ra[p].copy)
           fresh    == SoftReset(raCfg,
                                 IF stats[ev.pubkey].present THEN stats[ev.pubkey] ELSE NewStats,
                                 raNow)
           timed    == IF ~rejected \/ raCfg.CountRejectAsActivity
                         THEN [fresh EXCEPT !.LastEventTime = raNow]
                         ELSE fresh
           counted  == IF rejected THEN timed
                       ELSE IF isRepost THEN [timed EXCEPT !.Reposts = @ + 1]
                       ELSE [timed EXCEPT !.OriginalPosts = @ + 1]
       IN  /\ stats' = [stats EXCEPT ![ev.pubkey] = counted]
           /\ RAReturn(p, ev, TRUE, ra[p].copy,
                       IF rejected THEN RAResult(FALSE, "repost_ratio_too_high")
                                   ELSE RAResult(TRUE, "repost_ratio_ok"))
    /\ UNCHANGED <<raCfg, raNow>>

\* time passes
RATick ==
    /\ raNow < MaxRATime + 1
    /\ raNow' = raNow + 1
    /\ UNCHANGED <<raCfg, stats, ra, raLast>>

\* the entry of a pubkey reaches the cache TTL or is evicted
RAExpire(pk) ==
    /\ stats[pk].present
    /\ stats' = [stats EXCEPT ![pk] = NoStats]
    /\ UNCHANGED <<raCfg, ra, raNow, raLast>>

(***************************************************************************)
(* Part VII - properties of the repost-abuse stage                         *)
(***************************************************************************)
\* the step is the first critical section of goroutine p, or its decision
\* and commit
RAReadStep(p) == ra[p].pc = "idle" /\ ra'[p].pc = "decide"
RACommitStep(p) == ra[p].pc = "decide" /\ ra'[p].pc = "idle"

\* the counters stored for an author (zero when the cache has no entry)
StoredCounters(pk) == Counters(IF stats[pk].present THEN stats[pk] ELSE NewStats)

\* the rule of the claim, on counters c
PredictiveReject(c) ==
    LET total == c.OriginalPosts + c.Reposts
    IN  /\ total >= raCfg.MinEvents
        /\ (c.Reposts + 1) * raCfg.MaxRatio[2] >= raCfg.MaxRatio[1] * (total + 1)

\* C19: the counters a call decides on are the author's stored counters as
\* the first critical section leaves them; a repost is rejected exactly when
\* their total is at least min-events and (reposts + 1)/(total + 1) is at
\* least max-ratio; an original is never rejected.
C19_PredictiveRatio ==
    [][ \A p \in DOMAIN ra :
          /\ RAReadStep(p) =>
                LET pk == ra'[p].ev.pubkey
                IN  ra'[p].copy = Counters(IF stats'[pk].present THEN stats'[pk] ELSE NewStats)
          /\ RACommitStep(p) =>
                IF isRepostNIP18(raCfg, ra[p].ev)
                  THEN /\ Denied(raLast'.res) <=> PredictiveReject(ra[p].copy)
                       /\ Accepted(raLast'.res) <=> ~PredictiveReject(ra[p].copy)
                  ELSE Accepted(raLast'.res) ]_vars

\* the example: max-ratio 0.5, min-events 4; with 4 originals and 3 reposts
\* counted, a further repost was rejected
C19_Witness ==
    /\ raCfg.MaxRatio = <<1, 2>> /\ raCfg.MinEvents = 4
    /\ raLast.checked /\ raLast.isRepost
    /\ raLast.copy = [OriginalPosts |-> 4, Reposts |-> 3]
    /\ Denied(raLast.res)
    /\ StoredCounters(raLast.pubkey) = raLast.copy

\* C31: the commit starts from the author's entry as fetched again and
\* soft-reset: a rejected repost increments neither counter; an accepted
\* event increments exactly one counter by one (reposts for a repost,
\* originals otherwise); last-event-time becomes now on every accepted event
\* and on a rejected one only when count-reject-as-activity is set; the
\* counters are never negative.
C31_CommitRules ==
    /\ [](\A pk \in RAPubKeys : stats[pk].OriginalPosts >= 0 /\ stats[pk].Reposts >= 0)
    /\ [][ \A p \in DOMAIN ra :
            RACommitStep(p) =>
              LET pk     == ra[p].ev.pubkey
                  base   == SoftReset(raCfg, IF stats[pk].present THEN stats[pk] ELSE NewStats, raNow)
                  after  == stats'[pk]
                  repost == isRepostNIP18(raCfg, ra[p].ev)
              IN  /\ after.present
                  /\ IF Denied(raLast'.res)
                       THEN /\ repost
                            /\ after.OriginalPosts = base.OriginalPosts
                            /\ after.Reposts = base.Reposts
                            /\ after.LastEventTime =
                                  IF raCfg.CountRejectAsActivity THEN raNow ELSE base.LastEventTime
                       ELSE /\ after.Reposts = base.Reposts + (IF repost THEN 1 ELSE 0)
                            /\ after.OriginalPosts = base.OriginalPosts + (IF repost THEN 0 ELSE 1)
                            /\ after.LastEventTime = raNow
         ]_vars

\* a repost was rejected later than the author's last counted event, with
\* count-reject-as-activity off: the entry keeps its counters and its time
C31_Witness ==
    /\ raLast.checked /\ raLast.isRepost /\ Denied(raLast.res)
    /\ ~raCfg.CountRejectAsActivity
    /\ stats[raLast.pubkey].present
    /\ stats[raLast.pubkey].LastEventTime < raNow
    /\ Counters(stats[raLast.pubkey]) = raLast.copy
    /\ \A p \in DOMAIN ra : ra[p].pc = "idle"

\* C32: with reset-duration > 0, when a checked event of an author arrives
\* more than reset-duration after the author's last-event-time, the stored
\* counters are zeroed in the first critical section and the event is decided
\* on the counters (0, 0); with reset-duration = 0 no step lowers a counter
\* of an entry that stays in the cache.
C32_SoftReset ==
    [][ /\ \A p \in DOMAIN ra :
            (/\ RAReadStep(p)
             /\ stats[ra'[p].ev.pubkey].present
             /\ stats[ra'[p].ev.pubkey].LastEventTime # ZeroTime
             /\ raCfg.ResetDuration > 0
             /\ raNow - stats[ra'[p].ev.pubkey].LastEventTime > raCfg.ResetDuration) =>
                /\ ra'[p].copy = [OriginalPosts |-> 0, Reposts |-> 0]
                /\ Counters(stats'[ra'[p].ev.pubkey]) = [OriginalPosts |-> 0, Reposts |-> 0]
        /\ \A p \in DOMAIN ra :
            (/\ RAReadStep(p)
             /\ stats[ra'[p].ev.pubkey].present
             /\ ~(raCfg.ResetDuration > 0
                    /\ raNow - stats[ra'[p].ev.pubkey].LastEventTime > raCfg.ResetDuration)) =>
                /\ ra'[p].copy = Counters(stats[ra'[p].ev.pubkey])
                /\ stats' = stats
        /\ raCfg.ResetDuration = 0 =>
              \A pk \in RAPubKeys :
                  (stats[pk].present /\ stats'[pk].present) =>
                      /\ stats'[pk].OriginalPosts >= stats[pk].OriginalPosts
                      /\ stats'[pk].Reposts >= stats[pk].Reposts
      ]_vars

\* reset-duration is positive, the author's entry holds a last-event-time
\* that is more than reset-duration old, and a call has just copied the
\* zeroed counters
C32_Witness ==
    \E p \in DOMAIN ra :
        /\ ra[p].pc = "decide"
        /\ raCfg.ResetDuration > 0
        /\ stats[ra[p].ev.pubkey].present
        /\ stats[ra[p].ev.pubkey].LastEventTime # ZeroTime
        /\ raNow - stats[ra[p].ev.pubkey].LastEventTime > raCfg.ResetDuration
        /\ ra[p].copy = [OriginalPosts |-> 0, Reposts |-> 0]
        /\ isRepostNIP18(raCfg, ra[p].ev)

\* C38 as stated: an accepted kind-1 note is counted as a repost exactly when
\* it has a tag whose first element is exactly q and, with
\* require-nip21-in-quote set, its content holds a naddr1/nevent1/note1
\* reference; every other accepted kind-1 note is counted as an original.
C38_AsStated ==
    [][ \A p \in DOMAIN ra :
          (/\ RACommitStep(p)
           /\ ra[p].ev.kind = KindTextNote
           /\ Accepted(raLast'.res)) =>
              LET pk    == ra[p].ev.pubkey
                  base  == SoftReset(raCfg, IF stats[pk].present THEN stats[pk] ELSE NewStats, raNow)
                  quote == /\ ra[p].ev.tag = "q"
                           /\ (~raCfg.RequireNIP21InQuote \/ ra[p].ev.ref)
              IN  IF quote
                    THEN /\ stats'[pk].Reposts = base.Reposts + 1
                         /\ stats'[pk].OriginalPosts = base.OriginalPosts
                    ELSE /\ stats'[pk].Reposts = base.Reposts
                         /\ stats'[pk].OriginalPosts = base.OriginalPosts + 1
      ]_vars

\* C29 as stated: under concurrent Match calls for one author, no repost is
\* accepted whose commit leaves the author's stored counters with
\* reposts/(originals + reposts) >= max-ratio when the total before that
\* commit was at least min-events.
C29_AsStated ==
    [][ \A p \in DOMAIN ra :
          (/\ RACommitStep(p)
           /\ isRepostNIP18(raCfg, ra[p].ev)
           /\ Accepted(raLast'.res)
           /\ LET before == StoredCounters(ra[p].ev.pubkey)
              IN  before.OriginalPosts + before.Reposts >= raCfg.MinEvents) =>
              LET after == stats'[ra[p].ev.pubkey]
              IN  ~(after.Reposts * raCfg.MaxRatio[2]
                      >= raCfg.MaxRatio[1] * (after.OriginalPosts + after.Reposts))
      ]_vars

(***************************************************************************)
(* Part VIII - KindFilter and TagsFilter                                   *)
(***************************************************************************)
\* Match calls made before the model stops
MaxPredCalls == 2
\* the longest tag list of an event
MaxTagsLen == 2

\* the values of allowed_kinds and denied_kinds
KindLists == {<<>>, <<KindTextNote>>, <<KindTextNote, KindReaction>>, <<KindReaction>>}
KindConfigs == [AllowedKinds : KindLists, DeniedKinds : KindLists]

\* a tag is given by its first element, "" standing for an empty tag
TagNames == {"", "e", "p"}
TagLists == UNION {[1..n -> TagNames] : n \in 0..MaxTagsLen}
PredEvents == [kind : {KindTextNote, KindReaction}, tags : TagLists]

\* the elements of a list
Range(l) == {l[k] : k \in DOMAIN l}

\* NewKindFilter: the allow map stays nil when allowed_kinds is empty
NewKindFilter(cfg) ==
    [ allowedNil |-> Len(cfg.AllowedKinds) = 0,
      allowed |-> Range(cfg.AllowedKinds),
      denied  |-> Range(cfg.DeniedKinds) ]

KindResult(allowed, reason) == Result("KindFilter", allowed, reason, FALSE, FALSE)

\* a kind stage that asks the allow-list first and lets a listed kind pass
isDeniedUnlessAllowed(f, kind) == kind \in f.denied /\ kind \notin f.allowed

\* KindFilter.Match line 45: _, isDenied := f.denied[event.Kind]
isDenied(f, kind) == kind \in f.denied

\* KindFilter.Match
KindFilterMatch(f, ev) ==
    IF isDenied(f, ev.kind)
      THEN KindResult(FALSE, <<"kind_denied", ev.kind>>)
    ELSE IF ~f.allowedNil /\ ev.kind \notin f.allowed
      THEN KindResult(FALSE, <<"kind_not_allowed", ev.kind>>)
    ELSE KindResult(TRUE, "kind_allowed")

\* the rules of the tags stage: MaxTags is a pointer (<<>> for nil),
\* MaxTagCounts a map from tag name to limit
TagsConfigs ==
    { [Rules |-> << [Kinds |-> {KindTextNote}, MaxTags |-> <<>>,
                     RequiredTags |-> <<"e", "p">>, MaxTagCounts |-> [t \in {"e"} |-> 1]] >>],
      [Rules |-> << [Kinds |-> {KindTextNote, KindReaction}, MaxTags |-> <<1>>,
                     RequiredTags |-> <<>>, MaxTagCounts |-> [t \in {"e", "p"} |-> 0]] >>] }

\* NewTagsFilter lines 83-104: a kind is given the last rule that lists it
RECURSIVE BuildTagKindMap(_, _, _)
BuildTagKindMap(rules, i, m) ==
    IF i > Len(rules) THEN m
    ELSE BuildTagKindMap(rules, i + 1,
            [k \in DOMAIN m \cup rules[i].Kinds |->
                IF k \in rules[i].Kinds
                  THEN [source |-> rules[i], requiredTags |-> Range(rules[i].RequiredTags),
                        maxTagCounts |-> rules[i].MaxTagCounts]
                  ELSE m[k]])
NewTagsFilter(cfg) == BuildTagKindMap(cfg.Rules, 1, <<>>)

TagsResult(allowed, reason) == Result("TagsFilter", allowed, reason, FALSE, FALSE)

\* lines 128-140: the number of tags of the event with a given name
TagCount(ev, name) == Cardinality({k \in DOMAIN ev.tags : ev.tags[k] # "" /\ ev.tags[k] = name})

\* TagsFilter.Match: the results it can return.  The loops of lines 142 and
\* 149 range over Go maps, whose iteration order is not fixed: the tag that
\* is reported is any of those that fail the check.
TagsFilterMatch(tagRules, ev) ==
    IF ev.kind \notin DOMAIN tagRules
      THEN {TagsResult(TRUE, "no_rules_for_kind")}
    ELSE
      LET pr      == tagRules[ev.kind]
          rule    == pr.source
          missing == {r \in pr.requiredTags : TagCount(ev, r) = 0}
          over    == {t \in DOMAIN pr.maxTagCounts : TagCount(ev, t) > pr.maxTagCounts[t]}
      IN  IF rule.MaxTags # <<>> /\ Len(ev.tags) > rule.MaxTags[1]
            THEN {TagsResult(FALSE, <<"too_many_tags", Len(ev.tags), rule.MaxTags[1]>>)}
          ELSE IF missing # {}
            THEN {TagsResult(FALSE, <<"missing_required_tag", r>>) : r \in missing}
          ELSE IF over # {}
            THEN {TagsResult(FALSE, <<"too_many_tags", t, TagCount(ev, t), pr.maxTagCounts[t]>>) :
                     t \in over}
          ELSE {TagsResult(TRUE, "tags_ok")}

NoPredCall == [n |-> 0, stage |-> "none", ev |-> [kind |-> 0, tags |-> <<>>],
               res |-> Result("none", TRUE, "none", FALSE, FALSE)]

\* K, T: the configurations of the two stages
InitPred(K, T) ==
    /\ kindCfg \in K
    /\ tagsCfg \in T
    /\ prLast = NoPredCall

\* a Match call of the kind stage
KindMatch(ev) ==
    /\ prLast.n < MaxPredCalls
    /\ prLast' = [n |-> prLast.n + 1, stage |-> "KindFilter", ev |-> ev,
                  res |-> KindFilterMatch(NewKindFilter(kindCfg), ev)]
    /\ UNCHANGED <<kindCfg, tagsCfg>>

\* a Match call of the tags stage
TagsMatch(ev) ==
    /\ prLast.n < MaxPredCalls
    /\ \E res \in TagsFilterMatch(NewTagsFilter(tagsCfg), ev) :
          prLast' = [n |-> prLast.n + 1, stage |-> "TagsFilter", ev |-> ev, res |-> res]
    /\ UNCHANGED <<kindCfg, tagsCfg>>

(***************************************************************************)
(* Part VIII - properties of the predicate stages                          *)
(***************************************************************************)
\* C22 as stated: a Match call of a predicate stage that repeats the previous
\* call (same stage, same event, same stage state) returns the same allowed
\* flag and the same reason.
C22_AsStated ==
    [][ ( /\ prLast.n > 0 /\ prLast'.n = prLast.n + 1
          /\ prLast'.stage = prLast.stage /\ prLast'.ev = prLast.ev ) =>
            /\ prLast'.res.Allowed = prLast.res.Allowed
            /\ prLast'.res.Reason = prLast.res.Reason ]_vars

\* C24: the kind stage rejects a kind of the deny-list, with the deny
\* reason, whether or not the allow-list has it; it rejects a kind missing
\* from a configured (non-empty) allow-list; it accepts every other event.
C24_KindStage ==
    (prLast.n > 0 /\ prLast.stage = "KindFilter") =>
        LET kind    == prLast.ev.kind
            denied  == \E k \in DOMAIN kindCfg.DeniedKinds : kindCfg.DeniedKinds[k] = kind
            allowed == \E k \in DOMAIN kindCfg.AllowedKinds : kindCfg.AllowedKinds[k] = kind
        IN  /\ denied => /\ Denied(prLast.res)
                         /\ prLast.res.Reason = <<"KindFilter", <<"kind_denied", kind>>>>
            /\ (~denied /\ kindCfg.AllowedKinds # <<>> /\ ~allowed) =>
                   /\ Denied(prLast.res)
                   /\ prLast.res.Reason = <<"KindFilter", <<"kind_not_allowed", kind>>>>
            /\ (~denied /\ (kindCfg.AllowedKinds = <<>> \/ allowed)) => Accepted(prLast.res)

\* an event whose kind is on both lists was rejected
C24_Witness ==
    /\ prLast.n > 0 /\ prLast.stage = "KindFilter"
    /\ prLast.ev.kind \in Range(kindCfg.DeniedKinds) \cap Range(kindCfg.AllowedKinds)
    /\ Denied(prLast.res)

(***************************************************************************)
(* Specifications                                                          *)
(***************************************************************************)
\* Part I: the transport loop, the dispatcher and the reload control plane.
(***************************************************************************)
(* Part IX - getLimiter under concurrent Match calls                       *)
(***************************************************************************)
\* goroutines calling Match
NumGL == 2
\* the burst of the rule's bucket (there is no refill)
GLBurst == 1

GLProcs == 1..NumGL

\* the cache keys: ruleID + ":" + userKey
GLKeys == {"default:ip:1", "default:ip:2"}

IdleGL == [pc |-> "idle", key |-> "", limiter |-> 0, last |-> "none"]

InitGL ==
    /\ limiterCache = [k \in GLKeys |-> 0]
    /\ limiterObjs = <<>>
    /\ gl = [g \in GLProcs |-> IdleGL]
    /\ glAdmitted = [k \in GLKeys |-> 0]

\* getLimiter, f.limiters.Get(key): a hit returns the cached object, a miss
\* goes on to create one
GLGet(g, key) ==
    /\ gl[g].pc = "idle"
    /\ gl' = [gl EXCEPT ![g] =
                IF limiterCache[key] # 0
                  THEN [pc |-> "allow", key |-> key, limiter |-> limiterCache[key], last |-> "none"]
                  ELSE [pc |-> "add", key |-> key, limiter |-> 0, last |-> "none"]]
    /\ UNCHANGED <<limiterCache, limiterObjs, glAdmitted>>

\* getLimiter after a miss: rate.NewLimiter(r, b) makes a full bucket, and
\* f.limiters.Add(key, limiter) stores it, replacing what the key held
GLAdd(g) ==
    /\ gl[g].pc = "add"
    /\ limiterObjs' = Append(limiterObjs, GLBurst)
    /\ limiterCache' = [limiterCache EXCEPT ![gl[g].key] = Len(limiterObjs) + 1]
    /\ gl' = [gl EXCEPT ![g].pc = "allow", ![g].limiter = Len(limiterObjs) + 1]
    /\ UNCHANGED glAdmitted

\* limiter.Allow() on the object getLimiter returned, and the result of Match
GLAllow(g) ==
    /\ gl[g].pc = "allow"
    /\ LET l == gl[g].limiter IN
       IF limiterObjs[l] > 0
         THEN /\ limiterObjs' = [limiterObjs EXCEPT ![l] = @ - 1]
              /\ glAdmitted' = [glAdmitted EXCEPT ![gl[g].key] = @ + 1]
              /\ gl' = [gl EXCEPT ![g] = [IdleGL EXCEPT !.last = "rate_limit_ok"]]
         ELSE /\ gl' = [gl EXCEPT ![g] = [IdleGL EXCEPT !.last = "rate_limit_exceeded"]]
              /\ UNCHANGED <<limiterObjs, glAdmitted>>
    /\ UNCHANGED limiterCache

(***************************************************************************)
(* Part IX - properties of the shared bucket                               *)
(***************************************************************************)
\* C28 as stated: under concurrent Match calls two calls for one bucket key
\* never hold two different limiter objects, and without refill no bucket
\* key is admitted more than burst times.
C28_AsStated ==
    /\ \A g, h \in GLProcs :
          (gl[g].pc = "allow" /\ gl[h].pc = "allow" /\ gl[g].key = gl[h].key) =>
              gl[g].limiter = gl[h].limiter
    /\ \A k \in GLKeys : glAdmitted[k] <= GLBurst

(***************************************************************************)
(* Part X - EphemeralChatFilter                                            *)
(***************************************************************************)
\* the last instant of the chat stage's clock
MaxChatTime == 2

\* the absence of a lastSeen entry
NoTime == -1

\* cfg.Kinds, cfg.MaxCapsRatio (a pair <<numerator, denominator>>),
\* cfg.MinLettersForCapsCheck, cfg.MaxRepeatChars, cfg.MaxWordLength,
\* cfg.BlockZalgo, cfg.RateLimitRate and cfg.RateLimitBurst
ChatConfig == [Kinds |-> {KindTextNote}, MaxCapsRatio |-> <<1, 2>>, MinLettersForCapsCheck |-> 1,
               MaxRepeatChars |-> 2, MaxWordLength |-> 2, BlockZalgo |-> TRUE,
               RateLimitRate |-> 1, RateLimitBurst |-> 1]

\* the values of cfg.MinDelay, in ticks, and of cfg.RequiredPoWOnLimit
ChatDelays == {0, 2}
ChatPoWs == {0, 4}

\* the contents of the events: sequences of characters, "~" standing for a
\* combining mark (U+0300)
ChatContents == {<<"a">>, <<"A", "A">>, <<"a", "a">>, <<"a", "A">>, <<"~">>}

\* the ids of the events (hex digits, "x" is not one) and their nonce tags
ChatIDs == {<<"0", "0">>, <<"0", "1">>, <<"x", "0">>}
ChatNonces == {<<>>, <<"nonce", "1", <<"3">>>>,
               <<"nonce", "1", <<" ", "8">>>>, <<"nonce", "1", <<"x">>>>}

ChatPubKeys == {"a", "b"}
ChatEvents == [kind : {KindTextNote, KindReaction}, pubkey : ChatPubKeys,
               content : ChatContents, id : ChatIDs, nonce : ChatNonces]

\* unicode.IsLetter, unicode.IsUpper, the class of the zalgo expression
IsLetter(ch) == ch \in {"a", "A"}
IsUpper(ch) == ch = "A"
IsCombining(ch) == ch = "~"
IsSpace(ch) == ch = " "

\* lines 87-107: more than minLetters letters, and the share of capitals is
\* above max_caps_ratio
ExcessiveCaps(cfg, content) ==
    LET letters == Cardinality({i \in 1..Len(content) : IsLetter(content[i])})
        caps    == Cardinality({i \in 1..Len(content) : IsUpper(content[i])})
        minLetters == IF cfg.MinLettersForCapsCheck <= 0 THEN 20 ELSE cfg.MinLettersForCapsCheck
    IN  /\ cfg.MaxCapsRatio[1] > 0
        /\ letters > minLetters
        /\ caps * cfg.MaxCapsRatio[2] > cfg.MaxCapsRatio[1] * letters

\* lines 109-125: a run of MaxRepeatChars equal characters
ExcessiveRepetition(cfg, content) ==
    /\ cfg.MaxRepeatChars > 0
    /\ Len(content) >= cfg.MaxRepeatChars
    /\ \E i \in 2..Len(content) :
          /\ i - cfg.MaxRepeatChars + 1 >= 1
          /\ \A j \in (i - cfg.MaxRepeatChars + 2)..i : content[j] = content[j - 1]

\* line 127: the expression \S{MaxWordLength,} matches
WordTooLong(cfg, content) ==
    /\ cfg.MaxWordLength > 0
    /\ \E i \in 1..Len(content) :
          /\ i + cfg.MaxWordLength - 1 <= Len(content)
          /\ \A j \in i..(i + cfg.MaxWordLength - 1) : ~IsSpace(content[j])

\* line 131: the zalgo expression matches
ZalgoDetected(cfg, content) ==
    cfg.BlockZalgo /\ \E i \in 1..Len(content) : IsCombining(content[i])

\* hexToLeadingZeros: the leading zero bits of a hex digit, -1 for a
\* character that is not one
HexLeadingZeros(ch) ==
    CASE ch = "0" -> 4
      [] ch = "1" -> 3
      [] OTHER    -> -1

\* CountLeadingZeroBits
RECURSIVE CountLeadingZeroBits(_)
CountLeadingZeroBits(hexString) ==
    IF hexString = <<>> THEN 0
    ELSE LET zeros == HexLeadingZeros(Head(hexString))
         IN  IF zeros = -1 THEN 0
             ELSE IF zeros # 4 THEN zeros
             ELSE zeros + CountLeadingZeroBits(Tail(hexString))

\* strings.TrimSpace
RECURSIVE TrimSpace(_)
TrimSpace(str) ==
    IF str = <<>> THEN str
    ELSE IF IsSpace(Head(str)) THEN TrimSpace(Tail(str))
    ELSE IF IsSpace(str[Len(str)]) THEN TrimSpace(SubSeq(str, 1, Len(str) - 1))
    ELSE str

\* strconv.Atoi on the strings of the model: the number, or an error
Atoi(str) ==
    IF str = <<"3">> THEN [err |-> FALSE, val |-> 3]
    ELSE IF str = <<"8">> THEN [err |-> FALSE, val |-> 8]
    ELSE [err |-> TRUE, val |-> 0]

\* a proof of work judged on the id alone
IsPoWValidByIDOnly(ev, minDifficulty) == CountLeadingZeroBits(ev.id) >= minDifficulty

\* IsPoWValid
IsPoWValid(ev, minDifficulty) ==
    IF minDifficulty <= 0 THEN TRUE
    ELSE IF Len(ev.nonce) < 3 THEN FALSE
    ELSE LET claimed == Atoi(TrimSpace(ev.nonce[3]))
         IN  IF claimed.err THEN FALSE
             ELSE IF claimed.val < minDifficulty THEN FALSE
             ELSE CountLeadingZeroBits(ev.id) >= claimed.val

ChatResult(allowed, reason) == Result("EphemeralChatFilter", allowed, reason, FALSE, FALSE)

NoChatCall == [seq |-> 0, pubkey |-> "", id |-> <<>>, nonce |-> <<>>, limited |-> FALSE,
               res |-> ChatResult(TRUE, "none")]

\* E, D, P: the values of cfg.Enabled, cfg.MinDelay and cfg.RequiredPoWOnLimit
InitChat(E, D, P) ==
    /\ chatCfg \in [Enabled : E, MinDelay : D, RequiredPoWOnLimit : P]
    /\ lastSeen = [pk \in ChatPubKeys |-> NoTime]
    /\ chatLimiters = [pk \in ChatPubKeys |-> NoLimiter]
    /\ chatNow = 0
    /\ chatLast = NoChatCall

\* a delay check that looks at nothing
TooSoonNever(pk) == FALSE

\* lines 76-77: the pubkey has an entry and now - last < MinDelay
TooSoon(pk) == lastSeen[pk] # NoTime /\ chatNow - lastSeen[pk] < chatCfg.MinDelay

\* EphemeralChatFilter.Match on event ev
ChatMatch(ev) ==
    /\ LET Ret(limited, res) ==
               chatLast' = [seq |-> 1 - chatLast.seq, pubkey |-> ev.pubkey,
                            id |-> IF limited THEN ev.id ELSE <<>>,
                            nonce |-> IF limited THEN ev.nonce ELSE <<>>,
                            limited |-> limited, res |-> res]
           delayOn == chatCfg.MinDelay > 0
           limiter == getLimiter(chatLimiters, ev.pubkey,
                                 ChatConfig.RateLimitRate, ChatConfig.RateLimitBurst)
       IN  IF ~chatCfg.Enabled \/ ev.kind \notin ChatConfig.Kinds
             THEN /\ Ret(FALSE, ChatResult(TRUE, "filter_disabled_or_kind_not_matched"))
                  /\ UNCHANGED <<lastSeen, chatLimiters>>
           ELSE IF delayOn /\ TooSoon(ev.pubkey)
             THEN /\ Ret(FALSE, ChatResult(FALSE, "posting_too_frequently"))
                  /\ UNCHANGED <<lastSeen, chatLimiters>>
           ELSE /\ lastSeen' = IF delayOn THEN [lastSeen EXCEPT ![ev.pubkey] = chatNow]
                               ELSE lastSeen
                /\ IF ExcessiveCaps(ChatConfig, ev.content)
                     THEN /\ Ret(FALSE, ChatResult(FALSE, "excessive_caps"))
                          /\ UNCHANGED chatLimiters
                   ELSE IF ExcessiveRepetition(ChatConfig, ev.content)
                     THEN /\ Ret(FALSE, ChatResult(FALSE, "excessive_char_repetition"))
                          /\ UNCHANGED chatLimiters
                   ELSE IF WordTooLong(ChatConfig, ev.content)
                     THEN /\ Ret(FALSE, ChatResult(FALSE, "word_too_long"))
                          /\ UNCHANGED chatLimiters
                   ELSE IF ZalgoDetected(ChatConfig, ev.content)
                     THEN /\ Ret(FALSE, ChatResult(FALSE, "zalgo_text_detected"))
                          /\ UNCHANGED chatLimiters
                   ELSE IF limiter.tokens >= 1
                     THEN /\ Ret(FALSE, ChatResult(TRUE, "rate_limit_ok"))
                          /\ chatLimiters' = [chatLimiters EXCEPT ![ev.pubkey] =
                                                [limiter EXCEPT !.tokens = @ - 1]]
                   ELSE /\ chatLimiters' = [chatLimiters EXCEPT ![ev.pubkey] = limiter]
                        /\ IF IsPoWValid(ev, chatCfg.RequiredPoWOnLimit)
                             THEN Ret(TRUE, ChatResult(TRUE, "rate_limit_bypassed_by_pow"))
                             ELSE Ret(TRUE, ChatResult(FALSE, "rate_limit_exceeded"))
    /\ UNCHANGED <<chatCfg, chatNow>>

\* time passes: every bucket gains its rate in tokens, up to its burst
ChatTick ==
    /\ chatNow < MaxChatTime
    /\ chatNow' = chatNow + 1
    /\ chatLimiters' = [pk \in ChatPubKeys |->
                          LET l == chatLimiters[pk]
                          IN  IF l.present
                                THEN [l EXCEPT !.tokens =
                                         IF @ + l.rate > l.burst THEN l.burst ELSE @ + l.rate]
                                ELSE l]
    /\ UNCHANGED <<chatCfg, lastSeen, chatLast>>

\* the lastSeen entry of a pubkey reaches its TTL or is evicted
ChatForget(pk) ==
    /\ lastSeen[pk] # NoTime
    /\ lastSeen' = [lastSeen EXCEPT ![pk] = NoTime]
    /\ UNCHANGED <<chatCfg, chatLimiters, chatNow, chatLast>>

(***************************************************************************)
(* Part X - properties of the chat stage                                   *)
(***************************************************************************)
\* the step is a Match call
ChatMatchStep == chatLast'.seq # chatLast.seq

\* C33: with the stage on, a delay configured and an event of a checked kind:
\* when the pubkey's last-seen entry is less than min-delay old the event is
\* rejected for its frequency, whatever its content, and last-seen stays as
\* it is; otherwise last-seen becomes now, whatever the later checks answer;
\* no buckets are touched by an event rejected for its frequency.
C33_MinDelayFirst ==
    [][ (/\ ChatMatchStep
         /\ chatCfg.Enabled /\ chatCfg.MinDelay > 0
         /\ chatLast'.res.Reason # <<"EphemeralChatFilter", "filter_disabled_or_kind_not_matched">>) =>
           LET pk == chatLast'.pubkey
           IN  IF lastSeen[pk] # NoTime /\ chatNow - lastSeen[pk] < chatCfg.MinDelay
                 THEN /\ Denied(chatLast'.res)
                      /\ chatLast'.res.Reason = <<"EphemeralChatFilter", "posting_too_frequently">>
                      /\ lastSeen' = lastSeen
                      /\ chatLimiters' = chatLimiters
                 ELSE /\ chatLast'.res.Reason # <<"EphemeralChatFilter", "posting_too_frequently">>
                      /\ lastSeen' = [lastSeen EXCEPT ![pk] = chatNow]
      ]_vars

\* an event was rejected for its frequency one tick after the pubkey's
\* previous event, and last-seen still holds the time of the previous one
C33_Witness ==
    /\ chatLast.res.Reason = <<"EphemeralChatFilter", "posting_too_frequently">>
    /\ chatCfg.MinDelay = 2
    /\ chatNow = 1
    /\ lastSeen[chatLast.pubkey] = 0

\* C34 as stated: when the pubkey's bucket denies, the event is allowed if
\* and only if the leading zero bits of its id are at least
\* required-pow-on-limit and it has a nonce tag whose claimed difficulty is
\* at least required-pow-on-limit.
C34_AsStated ==
    chatLast.limited =>
        (Accepted(chatLast.res) <=>
            /\ CountLeadingZeroBits(chatLast.id) >= chatCfg.RequiredPoWOnLimit
            /\ Len(chatLast.nonce) >= 3
            /\ ~Atoi(TrimSpace(chatLast.nonce[3])).err
            /\ Atoi(TrimSpace(chatLast.nonce[3])).val >= chatCfg.RequiredPoWOnLimit)

(***************************************************************************)
(* Part XI - LanguageFilter                                                *)
(***************************************************************************)
\* cfg.AllowedLanguages and cfg.KindsToCheck after NewLanguageFilter, and
\* cfg.PrimaryAcceptThreshold: per primary language, the threshold for each
\* similar language and the default one (confidences in tenths)
LangConfig == [allowedLangs |-> {"en"}, allowedKinds |-> {KindTextNote},
               thresholds |-> [en |-> [ru |-> 8]],
               defaultThresholds |-> [en |-> 6]]

\* the values of cfg.MinLengthForCheck
LangMinLengths == {0, 2}

\* what the detector answers for the cleaned content: a language or "none"
\* (DetectLanguageOf), and the confidence of the primary language "en"
\* (ComputeLanguageConfidence), in tenths
LangDetected == {"en", "ru", "de", "none"}
LangConfidences == {6, 8, 9}

\* the lengths of the content and of the cleaned content
LangLengths == {<<0, 0>>, <<3, 1>>, <<3, 3>>}

LangPubKeys == {"a", "b"}
LangEvents == [kind : {KindTextNote, KindReaction}, pubkey : LangPubKeys,
               len : LangLengths, lang : LangDetected, conf : LangConfidences]

LangResult(allowed, reason) == Result("LanguageFilter", allowed, reason, FALSE, FALSE)

NoLangCall == [seq |-> 0, ev |-> [kind |-> 0, pubkey |-> "", len |-> <<0, 0>>,
                                  lang |-> "none", conf |-> 0],
               res |-> LangResult(TRUE, "none")]

\* E, L, X: the values of cfg.Enabled and cfg.MinLengthForCheck, and whether
\* ApprovedCacheTTL and ApprovedCacheSize are positive (the cache is built)
InitLang(E, L, X) ==
    /\ langCfg \in [Enabled : E, MinLengthForCheck : L, cache : X]
    /\ approvedCache = {}
    /\ langLast = NoLangCall

\* a comparison that lets the threshold itself pass
AboveThresholdOrEqual(confidence, threshold) == confidence >= threshold

\* line 154: confidence > threshold
AboveThreshold(confidence, threshold) == confidence > threshold

\* lines 148-165: some primary language has a rule for the detected language
\* (its own threshold or the default one) and its confidence is above it
AllowedByThreshold(ev) ==
    \E primaryLang \in DOMAIN LangConfig.thresholds :
        LET similarLangsMap == LangConfig.thresholds[primaryLang]
            hasOwn == ev.lang \in DOMAIN similarLangsMap
            hasRule == hasOwn \/ primaryLang \in DOMAIN LangConfig.defaultThresholds
            threshold == IF hasOwn THEN similarLangsMap[ev.lang]
                         ELSE LangConfig.defaultThresholds[primaryLang]
        IN  hasRule /\ AboveThreshold(ev.conf, threshold)

\* LanguageFilter.Match on event ev
LangMatch(ev) ==
    /\ LET Ret(res) == langLast' = [seq |-> 1 - langLast.seq, ev |-> ev, res |-> res]
           Cache == IF langCfg.cache THEN approvedCache \cup {ev.pubkey} ELSE approvedCache
       IN  IF ~langCfg.Enabled \/ LangConfig.allowedLangs = {}
             THEN Ret(LangResult(TRUE, "filter_disabled")) /\ UNCHANGED approvedCache
           ELSE IF ev.kind \notin LangConfig.allowedKinds
             THEN Ret(LangResult(TRUE, "kind_not_checked")) /\ UNCHANGED approvedCache
           ELSE IF langCfg.MinLengthForCheck > 0 /\ ev.len[1] < langCfg.MinLengthForCheck
             THEN Ret(LangResult(TRUE, "content_too_short")) /\ UNCHANGED approvedCache
           ELSE IF langCfg.cache /\ ev.pubkey \in approvedCache
             THEN Ret(LangResult(TRUE, "pubkey_in_cache")) /\ UNCHANGED approvedCache
           ELSE IF ev.len[2] < langCfg.MinLengthForCheck
             THEN Ret(LangResult(TRUE, "cleaned_content_too_short")) /\ UNCHANGED approvedCache
           ELSE IF ev.lang = "none"
             THEN Ret(LangResult(FALSE, "language_undetectable")) /\ UNCHANGED approvedCache
           ELSE IF ev.lang \in LangConfig.allowedLangs
             THEN Ret(LangResult(TRUE, "language_allowed")) /\ approvedCache' = Cache
           ELSE IF AllowedByThreshold(ev)
             THEN Ret(LangResult(TRUE, "language_allowed_by_threshold")) /\ approvedCache' = Cache
           ELSE Ret(LangResult(FALSE, "language_not_allowed")) /\ UNCHANGED approvedCache
    /\ UNCHANGED langCfg

\* the entry of a pubkey reaches the cache TTL or is evicted
LangForget(pk) ==
    /\ pk \in approvedCache
    /\ approvedCache' = approvedCache \ {pk}
    /\ UNCHANGED <<langCfg, langLast>>

(***************************************************************************)
(* Part XI - properties of the language stage                              *)
(***************************************************************************)
\* the step is a Match call
LangMatchStep == langLast'.seq # langLast.seq

\* the reasons of a Match call that returned before the detector was asked
LangNoDetection ==
    {<<"LanguageFilter", r>> : r \in {"filter_disabled", "kind_not_checked", "content_too_short",
                                      "pubkey_in_cache", "cleaned_content_too_short"}}

\* C39: a pubkey enters the approved cache only in a Match call that accepted
\* its event after detection, the detected language being in the allow-list
\* or the confidence strictly above the threshold; an event of a checked kind
\* from a pubkey in the cache is accepted without detection, whatever its
\* language, and the cache stays as it is; an event whose language the
\* detector cannot tell is rejected and its pubkey is not added.
C39_ApprovedCache ==
    [][ LangMatchStep =>
          LET ev == langLast'.ev
              res == langLast'.res
          IN  /\ approvedCache' \subseteq approvedCache \cup {ev.pubkey}
              /\ approvedCache \subseteq approvedCache'
              /\ (ev.pubkey \in approvedCache' \ approvedCache) =>
                    /\ Accepted(res)
                    /\ res.Reason \notin LangNoDetection
                    /\ ev.lang # "none"
                    /\ \/ ev.lang = "en"
                       \/ ev.lang = "ru" /\ ev.conf > 8
                       \/ ev.lang = "de" /\ ev.conf > 6
              /\ (/\ langCfg.Enabled /\ ev.kind = KindTextNote
                  /\ ev.pubkey \in approvedCache) =>
                    /\ Accepted(res)
                    /\ res.Reason \in LangNoDetection
                    /\ approvedCache' = approvedCache
              /\ (res.Reason \notin LangNoDetection /\ ev.lang = "none") =>
                    /\ Denied(res)
                    /\ res.Reason = <<"LanguageFilter", "language_undetectable">>
                    /\ approvedCache' = approvedCache
      ]_vars

\* a pubkey is in the cache and its last event, of a checked kind and long
\* enough, in a language that is not allowed and below every threshold, was
\* accepted from the cache
C39_Witness ==
    /\ langLast.res.Reason = <<"LanguageFilter", "pubkey_in_cache">>
    /\ langLast.ev.pubkey \in approvedCache
    /\ langLast.ev.lang = "ru" /\ langLast.ev.conf = 8
    /\ langCfg.MinLengthForCheck > 0

Init ==
    /\ InitPipe(BOOLEAN, {"A"}, {ClosingBuild})
    /\ InitAB({TRUE})
    /\ InitBA({{}})
    /\ InitMod({ModeratorKey}, {1})
    /\ InitRL({TRUE}, {"ip"})
    /\ InitEm({TRUE}, {TRUE}, {0})
    /\ InitRA({RATestConfig}, {1})
    /\ InitPred({[AllowedKinds |-> <<>>, DeniedKinds |-> <<>>]}, {[Rules |-> <<>>]})
    /\ InitGL
    /\ InitChat({TRUE}, {0}, {0})
    /\ InitLang({TRUE}, {0}, {TRUE})

Next ==
    \/ ConfigChange /\ UNCHANGED <<abVars, baVars, laterVars>>
    \/ \E c \in Configs : ReloadLoad(c) /\ UNCHANGED <<abVars, baVars, laterVars>>
    \/ \E r \in DOMAIN reloads : ReloadBuild(r) /\ UNCHANGED <<abVars, baVars, laterVars>>
    \/ \E r \in DOMAIN reloads : ReloadSwap(r) /\ UNCHANGED <<abVars, baVars, laterVars>>
    \/ \E pid \in DOMAIN pipelines : Close(pid) /\ UNCHANGED <<abVars, baVars, laterVars>>
    \/ \E kind \in LineKinds : ReadLine(kind) /\ UNCHANGED <<abVars, baVars, laterVars>>
    \/ \E err \in BOOLEAN : ReadEOF(err) /\ UNCHANGED <<abVars, baVars, laterVars>>
    \/ EOFReturn /\ UNCHANGED <<abVars, baVars, laterVars>>
    \/ Enter /\ UNCHANGED <<abVars, baVars, laterVars>>
    \/ RunStages /\ UNCHANGED <<abVars, baVars, laterVars>>
    \/ Emit /\ UNCHANGED <<abVars, baVars, laterVars>>

Spec == Init /\ [][Next]_vars

\* Part I with either processEvents, under the scheduling of the select
\* loop: a step of the loop that can be taken is taken.
InitEOFSpec ==
    /\ InitPipe({FALSE}, {"A"}, {ClosingBuild, NonClosingBuild})
    /\ InitAB({TRUE})
    /\ InitBA({{}})
    /\ InitMod({ModeratorKey}, {1})
    /\ InitRL({TRUE}, {"ip"})
    /\ InitEm({TRUE}, {TRUE}, {0})
    /\ InitRA({RATestConfig}, {1})
    /\ InitPred({[AllowedKinds |-> <<>>, DeniedKinds |-> <<>>]}, {[Rules |-> <<>>]})
    /\ InitGL
    /\ InitChat({TRUE}, {0}, {0})
    /\ InitLang({TRUE}, {0}, {TRUE})

LoopStep ==
    \/ \E kind \in LineKinds : ReadLine(kind)
    \/ \E err \in BOOLEAN : ReadEOF(err)
    \/ EOFReturn
    \/ Enter
    \/ RunStages
    \/ Emit

SpecEOF == InitEOFSpec /\ [][Next]_vars /\ WF_vars(LoopStep /\ UNCHANGED <<abVars, baVars, laterVars>>)

\* Part II: concurrent HandleRejection calls on one AutoBanFilter.
InitABSpec ==
    /\ InitPipe({FALSE}, {"A"}, {ClosingBuild})
    /\ InitAB(BOOLEAN)
    /\ InitBA({{}})
    /\ InitMod({ModeratorKey}, {1})
    /\ InitRL({TRUE}, {"ip"})
    /\ InitEm({TRUE}, {TRUE}, {0})
    /\ InitRA({RATestConfig}, {1})
    /\ InitPred({[AllowedKinds |-> <<>>, DeniedKinds |-> <<>>]}, {[Rules |-> <<>>]})
    /\ InitGL
    /\ InitChat({TRUE}, {0}, {0})
    /\ InitLang({TRUE}, {0}, {TRUE})

NextAB ==
    \/ \E g \in HRProcs, pk \in PubKeys, fn \in RejectingFilters :
          HRStart(g, pk, fn) /\ UNCHANGED <<pipeVars, baVars, laterVars>>
    \/ \E g \in HRProcs : HRLock(g) /\ UNCHANGED <<pipeVars, baVars, laterVars>>
    \/ \E g \in HRProcs : HRFinish(g) /\ UNCHANGED <<pipeVars, baVars, laterVars>>
    \/ \E pk \in PubKeys, ok \in BOOLEAN :
          BanUser(pk, ok) /\ UNCHANGED <<pipeVars, cache, sf, lk, baHist, laterVars>>
    \/ Tick /\ UNCHANGED <<pipeVars, baVars, laterVars>>

SpecAB == InitABSpec /\ [][NextAB]_vars

\* the same, where every HandleRejection call that holds or can take the
\* mutex goes on and every banUser goroutine started eventually runs
ABProgress ==
    \/ \E g \in HRProcs : HRLock(g) /\ UNCHANGED <<pipeVars, baVars, laterVars>>
    \/ \E g \in HRProcs : HRFinish(g) /\ UNCHANGED <<pipeVars, baVars, laterVars>>
    \/ \E pk \in PubKeys, ok \in BOOLEAN :
          BanUser(pk, ok) /\ UNCHANGED <<pipeVars, cache, sf, lk, baHist, laterVars>>

SpecABLive == InitABSpec /\ [][NextAB]_vars /\ WF_vars(ABProgress)

\* Part III: concurrent isBanned calls on one BannedAuthorFilter, while the
\* ban store is written by the moderator stage and the auto-ban handler.
InitBASpec ==
    /\ InitPipe({FALSE}, {"A"}, {ClosingBuild})
    /\ InitAB({TRUE})
    /\ InitBA(SUBSET Keys)
    /\ InitMod({ModeratorKey}, {1})
    /\ InitRL({TRUE}, {"ip"})
    /\ InitEm({TRUE}, {TRUE}, {0})
    /\ InitRA({RATestConfig}, {1})
    /\ InitPred({[AllowedKinds |-> <<>>, DeniedKinds |-> <<>>]}, {[Rules |-> <<>>]})
    /\ InitGL
    /\ InitChat({TRUE}, {0}, {0})
    /\ InitLang({TRUE}, {0}, {TRUE})

NextBA ==
    \/ \E g \in Lookups, pk \in PubKeys : LookupStart(g, pk) /\ UNCHANGED <<pipeVars, abVars, laterVars>>
    \/ \E g \in Lookups : SfDo(g) /\ UNCHANGED <<pipeVars, abVars, laterVars>>
    \/ \E g \in Lookups : FnCheck(g) /\ UNCHANGED <<pipeVars, abVars, laterVars>>
    \/ \E g \in Lookups, ok \in BOOLEAN : StoreReturn(g, ok) /\ UNCHANGED <<pipeVars, abVars, laterVars>>
    \/ \E g \in Lookups : FlightDone(g) /\ UNCHANGED <<pipeVars, abVars, laterVars>>
    \/ \E g \in Lookups : LookupReturn(g) /\ UNCHANGED <<pipeVars, abVars, laterVars>>
    \/ \E k \in Keys : CacheExpire(k) /\ UNCHANGED <<pipeVars, abVars, laterVars>>
    \/ \E pk \in PubKeys : BanAuthor(pk) /\ UNCHANGED <<pipeVars, abVars, laterVars>>
    \/ \E pk \in PubKeys : UnbanAuthor(pk) /\ UNCHANGED <<pipeVars, abVars, laterVars>>

SpecBA == InitBASpec /\ [][NextBA]_vars

\* Part IV: Match calls on one ModerationFilter, and the delete-by-author
\* goroutines it starts.
InitModSpec ==
    /\ InitPipe({FALSE}, {"A"}, {ClosingBuild})
    /\ InitAB({TRUE})
    /\ InitBA({{}})
    /\ InitMod({<<>>, ModeratorKey}, BanDurations)
    /\ InitRL({TRUE}, {"ip"})
    /\ InitEm({TRUE}, {TRUE}, {0})
    /\ InitRA({RATestConfig}, {1})
    /\ InitPred({[AllowedKinds |-> <<>>, DeniedKinds |-> <<>>]}, {[Rules |-> <<>>]})
    /\ InitGL
    /\ InitChat({TRUE}, {0}, {0})
    /\ InitLang({TRUE}, {0}, {TRUE})

NextMod ==
    \/ \E ev \in ModEvents, ok \in BOOLEAN :
          ModMatch(ev, ok) /\ UNCHANGED <<pipeVars, abVars, cache, sf, lk, baHist, rlVars, emVars, raVars, prVars, glVars, tailVars>>
    \/ \E t \in ModTargets :
          DeleteEventsByAuthor(t) /\ UNCHANGED <<pipeVars, abVars, cache, sf, lk, baHist, rlVars, emVars, raVars, prVars, glVars, tailVars>>

SpecMod == InitModSpec /\ [][NextMod]_vars

\* Part V: Match calls on one RateLimiterFilter, one after the other.
InitRLSpec ==
    /\ InitPipe({FALSE}, {"A"}, {ClosingBuild})
    /\ InitAB({TRUE})
    /\ InitBA({{}})
    /\ InitMod({ModeratorKey}, {1})
    /\ InitRL(BOOLEAN, RateBy)
    /\ InitEm({TRUE}, {TRUE}, {0})
    /\ InitRA({RATestConfig}, {1})
    /\ InitPred({[AllowedKinds |-> <<>>, DeniedKinds |-> <<>>]}, {[Rules |-> <<>>]})
    /\ InitGL
    /\ InitChat({TRUE}, {0}, {0})
    /\ InitLang({TRUE}, {0}, {TRUE})

NextRL ==
    \/ \E ev \in RLEvents : RLMatch(ev) /\ UNCHANGED <<pipeVars, abVars, baVars, modVars, emVars, raVars, prVars, glVars, tailVars>>
    \/ RLTick /\ UNCHANGED <<pipeVars, abVars, baVars, modVars, emVars, raVars, prVars, glVars, tailVars>>
    \/ \E key \in RLCacheKeys : RLEvict(key) /\ UNCHANGED <<pipeVars, abVars, baVars, modVars, emVars, raVars, prVars, glVars, tailVars>>

SpecRL == InitRLSpec /\ [][NextRL]_vars

\* Part VI: Match calls on one EmergencyFilter, one after the other.
InitEmSpec ==
    /\ InitPipe({FALSE}, {"A"}, {ClosingBuild})
    /\ InitAB({TRUE})
    /\ InitBA({{}})
    /\ InitMod({ModeratorKey}, {1})
    /\ InitRL({TRUE}, {"ip"})
    /\ InitEm(BOOLEAN, BOOLEAN, EmPrefixes)
    /\ InitRA({RATestConfig}, {1})
    /\ InitPred({[AllowedKinds |-> <<>>, DeniedKinds |-> <<>>]}, {[Rules |-> <<>>]})
    /\ InitGL
    /\ InitChat({TRUE}, {0}, {0})
    /\ InitLang({TRUE}, {0}, {TRUE})

NextEm ==
    \/ \E ev \in EmEvents : EmMatch(ev) /\ UNCHANGED <<pipeVars, abVars, baVars, modVars, rlVars, raVars, prVars, glVars, tailVars>>
    \/ EmTick /\ UNCHANGED <<pipeVars, abVars, baVars, modVars, rlVars, raVars, prVars, glVars, tailVars>>
    \/ \E pk \in EmPubKeys : EmForget(pk) /\ UNCHANGED <<pipeVars, abVars, baVars, modVars, rlVars, raVars, prVars, glVars, tailVars>>
    \/ \E key \in EmIPKeys : EmEvict(key) /\ UNCHANGED <<pipeVars, abVars, baVars, modVars, rlVars, raVars, prVars, glVars, tailVars>>

SpecEm == InitEmSpec /\ [][NextEm]_vars

\* Part VII: Match calls on one RepostAbuseFilter, one after the other.
InitRASpec ==
    /\ InitPipe({FALSE}, {"A"}, {ClosingBuild})
    /\ InitAB({TRUE})
    /\ InitBA({{}})
    /\ InitMod({ModeratorKey}, {1})
    /\ InitRL({TRUE}, {"ip"})
    /\ InitEm({TRUE}, {TRUE}, {0})
    /\ InitRA(RAConfigs, {1})
    /\ InitPred({[AllowedKinds |-> <<>>, DeniedKinds |-> <<>>]}, {[Rules |-> <<>>]})
    /\ InitGL
    /\ InitChat({TRUE}, {0}, {0})
    /\ InitLang({TRUE}, {0}, {TRUE})

NextRA ==
    \/ \E p \in DOMAIN ra, ev \in RAEvents :
           RAStart(p, ev) /\ UNCHANGED <<pipeVars, abVars, baVars, modVars, rlVars, emVars, prVars, glVars, tailVars>>
    \/ \E p \in DOMAIN ra : RACommit(p) /\ UNCHANGED <<pipeVars, abVars, baVars, modVars, rlVars, emVars, prVars, glVars, tailVars>>
    \/ RATick /\ UNCHANGED <<pipeVars, abVars, baVars, modVars, rlVars, emVars, prVars, glVars, tailVars>>
    \/ \E pk \in RAPubKeys : RAExpire(pk) /\ UNCHANGED <<pipeVars, abVars, baVars, modVars, rlVars, emVars, prVars, glVars, tailVars>>

SpecRA == InitRASpec /\ [][NextRA]_vars

\* Part VII: two goroutines call Match on one RepostAbuseFilter.
InitRACSpec ==
    /\ InitPipe({FALSE}, {"A"}, {ClosingBuild})
    /\ InitAB({TRUE})
    /\ InitBA({{}})
    /\ InitMod({ModeratorKey}, {1})
    /\ InitRL({TRUE}, {"ip"})
    /\ InitEm({TRUE}, {TRUE}, {0})
    /\ InitRA({[RATestConfig EXCEPT !.MinEvents = 1]}, {1, 2})
    /\ InitPred({[AllowedKinds |-> <<>>, DeniedKinds |-> <<>>]}, {[Rules |-> <<>>]})
    /\ InitGL
    /\ InitChat({TRUE}, {0}, {0})
    /\ InitLang({TRUE}, {0}, {TRUE})

SpecRAC == InitRACSpec /\ [][NextRA]_vars

\* Part VIII: Match calls on one KindFilter and one TagsFilter.
InitPredSpec ==
    /\ InitPipe({FALSE}, {"A"}, {ClosingBuild})
    /\ InitAB({TRUE})
    /\ InitBA({{}})
    /\ InitMod({ModeratorKey}, {1})
    /\ InitRL({TRUE}, {"ip"})
    /\ InitEm({TRUE}, {TRUE}, {0})
    /\ InitRA({RATestConfig}, {1})
    /\ InitPred(KindConfigs, TagsConfigs)
    /\ InitGL
    /\ InitChat({TRUE}, {0}, {0})
    /\ InitLang({TRUE}, {0}, {TRUE})

NextPred ==
    \/ \E ev \in PredEvents : KindMatch(ev) /\ UNCHANGED <<pipeVars, abVars, baVars, modVars, rlVars, emVars, raVars, glVars, tailVars>>
    \/ \E ev \in PredEvents : TagsMatch(ev) /\ UNCHANGED <<pipeVars, abVars, baVars, modVars, rlVars, emVars, raVars, glVars, tailVars>>

SpecPred == InitPredSpec /\ [][NextPred]_vars

\* Part IX: concurrent Match calls of a stage that keeps its token buckets in
\* an LRU (RateLimiterFilter, EphemeralChatFilter, EmergencyFilter per IP).
InitGLSpec ==
    /\ InitPipe({FALSE}, {"A"}, {ClosingBuild})
    /\ InitAB({TRUE})
    /\ InitBA({{}})
    /\ InitMod({ModeratorKey}, {1})
    /\ InitRL({TRUE}, {"ip"})
    /\ InitEm({TRUE}, {TRUE}, {0})
    /\ InitRA({RATestConfig}, {1})
    /\ InitPred({[AllowedKinds |-> <<>>, DeniedKinds |-> <<>>]}, {[Rules |-> <<>>]})
    /\ InitGL
    /\ InitChat({TRUE}, {0}, {0})
    /\ InitLang({TRUE}, {0}, {TRUE})

NextGL ==
    \/ \E g \in GLProcs, key \in GLKeys :
          GLGet(g, key) /\ UNCHANGED <<pipeVars, abVars, baVars, modVars, rlVars, emVars, raVars, prVars, tailVars>>
    \/ \E g \in GLProcs :
          GLAdd(g) /\ UNCHANGED <<pipeVars, abVars, baVars, modVars, rlVars, emVars, raVars, prVars, tailVars>>
    \/ \E g \in GLProcs :
          GLAllow(g) /\ UNCHANGED <<pipeVars, abVars, baVars, modVars, rlVars, emVars, raVars, prVars, tailVars>>

SpecGL == InitGLSpec /\ [][NextGL]_vars

\* Part X: Match calls on one EphemeralChatFilter.
InitChatSpec ==
    /\ InitPipe({FALSE}, {"A"}, {ClosingBuild})
    /\ InitAB({TRUE})
    /\ InitBA({{}})
    /\ InitMod({ModeratorKey}, {1})
    /\ InitRL({TRUE}, {"ip"})
    /\ InitEm({TRUE}, {TRUE}, {0})
    /\ InitRA({RATestConfig}, {1})
    /\ InitPred({[AllowedKinds |-> <<>>, DeniedKinds |-> <<>>]}, {[Rules |-> <<>>]})
    /\ InitGL
    /\ InitChat(BOOLEAN, ChatDelays, ChatPoWs)
    /\ InitLang({TRUE}, {0}, {TRUE})

NextChat ==
    \/ \E ev \in ChatEvents :
          ChatMatch(ev) /\ UNCHANGED <<pipeVars, abVars, baVars, modVars, rlVars, emVars, raVars, prVars, glVars, langVars>>
    \/ ChatTick /\ UNCHANGED <<pipeVars, abVars, baVars, modVars, rlVars, emVars, raVars, prVars, glVars, langVars>>
    \/ \E pk \in ChatPubKeys :
          ChatForget(pk) /\ UNCHANGED <<pipeVars, abVars, baVars, modVars, rlVars, emVars, raVars, prVars, glVars, langVars>>

SpecChat == InitChatSpec /\ [][NextChat]_vars

\* Part XI: Match calls on one LanguageFilter.
InitLangSpec ==
    /\ InitPipe({FALSE}, {"A"}, {ClosingBuild})
    /\ InitAB({TRUE})
    /\ InitBA({{}})
    /\ InitMod({ModeratorKey}, {1})
    /\ InitRL({TRUE}, {"ip"})
    /\ InitEm({TRUE}, {TRUE}, {0})
    /\ InitRA({RATestConfig}, {1})
    /\ InitPred({[AllowedKinds |-> <<>>, DeniedKinds |-> <<>>]}, {[Rules |-> <<>>]})
    /\ InitGL
    /\ InitChat({TRUE}, {0}, {0})
    /\ InitLang(BOOLEAN, LangMinLengths, BOOLEAN)

NextLang ==
    \/ \E ev \in LangEvents :
          LangMatch(ev) /\ UNCHANGED <<pipeVars, abVars, baVars, modVars, rlVars, emVars, raVars, prVars, glVars, chatVars>>
    \/ \E pk \in LangPubKeys :
          LangForget(pk) /\ UNCHANGED <<pipeVars, abVars, baVars, modVars, rlVars, emVars, raVars, prVars, glVars, chatVars>>

SpecLang == InitLangSpec /\ [][NextLang]_vars

====
